---- MODULE Spec2Model ----
(***************************************************************************)
(* Model of the analysis engine of real-time-bi-copilot:                   *)
(*   mcp-server/tools/detect_anomalies.py  (anomaly detector, severity)    *)
(*   mcp-server/tools/analyze_data.py      (dataset profiler)              *)
(* Numbers are exact rationals (pairs n/d); a pandas NaN is a value of its *)
(* own.  A standard deviation is kept as the square root of a rational.    *)
(***************************************************************************)
EXTENDS Integers, Sequences, FiniteSets, TLC

VARIABLES
    db,        \* the data store: the rows of table "sales", in stored order
    call,      \* the arguments of the last detect_anomalies call
    outcome,   \* what that call did: the returned mapping, or the exception
    sevIn,     \* the arguments of the last _classify_severity call
    sevOut,    \* its return value
    adb,       \* the table analyze_data profiles
    acall,     \* the arguments of the last analyze_data call
    aout,      \* the mapping that call returned
    ai,        \* the server's AI client and its usage counters
    history,   \* the entries of the query-history log, oldest first
    max_entries, \* the capacity the query-history log was built with
    hcall,     \* the last call of a QueryHistory method, with what it returned
    qcall,     \* the arguments of the last query_database call
    qout       \* the mapping that call returned

vars == <<db, call, outcome, sevIn, sevOut, adb, acall, aout, ai, history,
          max_entries, hcall, qcall, qout>>

-----------------------------------------------------------------------------
(* Bounds of the model *)

MaxRows == 3
MaxVal == 2
MaxSev == 16

-----------------------------------------------------------------------------
(* Numbers *)

Abs(x) == IF x < 0 THEN -x ELSE x

Sq(x) == x * x

\* a float that holds the rational n/d (d > 0), or NaN
Rat(n, d) == [nan |-> FALSE, n |-> n, d |-> d]

NaN == [nan |-> TRUE, n |-> 0, d |-> 1]

\* a float that holds sgn * sqrt(n/d): the shape of a standard deviation
Surd(sgn, n, d) == [nan |-> FALSE, sgn |-> sgn, n |-> n, d |-> d]

SurdNaN == [nan |-> TRUE, sgn |-> 0, n |-> 0, d |-> 1]

Sign(x) == IF x > 0 THEN 1 ELSE IF x < 0 THEN -1 ELSE 0

\* the float of an integer standard deviation s
SurdOfInt(s) == Surd(Sign(s), s * s, 1)

\* floor of n/d for d > 0 (Integers' \div rounds towards minus infinity)
Floor(n, d) == n \div d

\* Python round(): the integer nearest to n/d, halves to the even neighbour
RoundHalfEven(n, d) ==
    LET f == Floor(n, d)
        twice == 2 * (n - f * d)
    IN  IF twice < d THEN f
        ELSE IF twice > d THEN f + 1
        ELSE IF f % 2 = 0 THEN f ELSE f + 1

\* round(x, k) of a float x: the rational with denominator scale = 10^k
RoundTo(x, scale) ==
    IF x.nan THEN NaN ELSE Rat(RoundHalfEven(x.n * scale, x.d), scale)

RECURSIVE Gcd(_, _)
Gcd(a, b) == IF b = 0 THEN a ELSE Gcd(b, a % b)

RECURSIVE LeqFrac(_, _, _, _)
\* a/b <= c/d for a, c >= 0 and b, d > 0, without forming the products
LeqFrac(a, b, c, d) ==
    IF a \div b # c \div d THEN a \div b < c \div d
    ELSE IF a % b = 0 THEN TRUE
    ELSE IF c % d = 0 THEN FALSE
    ELSE LeqFrac(d, c % d, b, a % b)

RECURSIVE ISqrtIn(_, _, _, _, _)
\* the largest k in lo..hi with (k/scale)^2 <= n/d (lo satisfies it)
ISqrtIn(lo, hi, n, d, scale) ==
    IF lo >= hi THEN lo
    ELSE LET mid == (lo + hi + 1) \div 2
         IN  IF LeqFrac(mid * mid, scale * scale, n, d)
             THEN ISqrtIn(mid, hi, n, d, scale)
             ELSE ISqrtIn(lo, mid - 1, n, d, scale)

\* an integer above sqrt(x), x >= 0
RECURSIVE RootCeiling(_, _)
RootCeiling(x, k) == IF k * k > x THEN k ELSE RootCeiling(x, k + 1)

\* floor(scale * sqrt(n/d)) for n >= 0, d > 0
ISqrt(n, d, scale) == ISqrtIn(0, scale * RootCeiling(n \div d, 1), n, d, scale)

\* round(sqrt(n/d), k) with scale = 10^k, for n >= 0, d > 0
RoundSqrtTo(n, d, scale) ==
    LET g == Gcd(n, d)
        k == ISqrt(n \div g, d \div g, scale)
        \* k + 1/2 against scale * sqrt(n/d)
        half == LeqFrac(Sq(2 * k + 1), 4 * scale * scale, n \div g, d \div g)
        tie == half /\ LeqFrac(n \div g, d \div g, Sq(2 * k + 1), 4 * scale * scale)
    IN  Rat(IF half /\ (~tie \/ k % 2 = 1) THEN k + 1 ELSE k, scale)

\* round(x, k) of a float x = sgn * sqrt(n/d)
RoundSurdTo(x, scale) ==
    IF x.nan THEN NaN
    ELSE IF x.sgn = 0 THEN Rat(0, scale)
    ELSE LET r == RoundSqrtTo(x.n, x.d, scale) IN Rat(x.sgn * r.n, scale)

-----------------------------------------------------------------------------
(* Severity / threshold policy: _classify_severity *)

\* abs(value - mean) / std > tn/td (td > 0, std # 0), as floats compare:
\* false for a NaN operand; a negative std gives a quotient <= 0
RatioGt(value, mean, std, tn, td) ==
    IF mean.nan \/ std.nan THEN FALSE
    ELSE IF std.sgn < 0
         THEN tn < 0 /\ Sq(value * mean.d - mean.n) * std.d * Sq(td)
                          < Sq(tn) * std.n * Sq(mean.d)
    ELSE tn < 0 \/ Sq(value * mean.d - mean.n) * std.d * Sq(td)
                     > Sq(tn) * std.n * Sq(mean.d)

\* the same quotient >= tn/td
RatioGe(value, mean, std, tn, td) ==
    IF mean.nan \/ std.nan THEN FALSE
    ELSE IF std.sgn < 0
         THEN tn <= 0 /\ Sq(value * mean.d - mean.n) * std.d * Sq(td)
                           <= Sq(tn) * std.n * Sq(mean.d)
    ELSE tn < 0 \/ Sq(value * mean.d - mean.n) * std.d * Sq(td)
                     >= Sq(tn) * std.n * Sq(mean.d)

\* deviation > k, the comparison of _classify_severity
DeviationGt(value, mean, std, k) == RatioGt(value, mean, std, k, 1)

DeviationGe(value, mean, std, k) == RatioGe(value, mean, std, k, 1)

\* std == 0
StdIsZero(std) == ~std.nan /\ std.sgn = 0

classify_severity_inclusive(value, mean, std) ==
    IF StdIsZero(std) THEN "low"
    ELSE IF DeviationGe(value, mean, std, 5) THEN "critical"
    ELSE IF DeviationGe(value, mean, std, 4) THEN "high"
    ELSE IF DeviationGe(value, mean, std, 3) THEN "medium"
    ELSE "low"

classify_severity_signed(value, mean, std) ==
    IF StdIsZero(std) THEN "low"
    ELSE IF mean.nan \/ value * mean.d < mean.n THEN "low"
    ELSE IF DeviationGt(value, mean, std, 5) THEN "critical"
    ELSE IF DeviationGt(value, mean, std, 4) THEN "high"
    ELSE IF DeviationGt(value, mean, std, 3) THEN "medium"
    ELSE "low"

_classify_severity(value, mean, std) ==
    IF StdIsZero(std) THEN "low"
    ELSE IF DeviationGt(value, mean, std, 5) THEN "critical"
    ELSE IF DeviationGt(value, mean, std, 4) THEN "high"
    ELSE IF DeviationGt(value, mean, std, 3) THEN "medium"
    ELSE "low"

-----------------------------------------------------------------------------
(* The data store and the snapshot loader *)

\* a cell of the metric column: a number, or null
Null == <<>>

Cell(v) == <<v>>

IsNull(c) == c = Null

\* a cell of the date column as stored: a text with its place in the text
\* order, which pd.to_datetime can parse or not
DateText(ord, ok) == [kind |-> "text", ord |-> ord, parses |-> ok]

\* the same cell once pd.to_datetime has converted the column
Timestamp(ord) == [kind |-> "timestamp", ord |-> ord, parses |-> TRUE]

TableColumns == <<"transaction_id", "transaction_date", "revenue">>

Range(f) == {f[i] : i \in DOMAIN f}

DatePatterns == {"asc", "desc", "ties", "bad"}

\* the date text of stored row i of n under a pattern
DateOf(p, i, n) ==
    CASE p = "asc" -> DateText(i, TRUE)
      [] p = "desc" -> DateText(n + 1 - i, TRUE)
      [] p = "ties" -> DateText(1, TRUE)
      [] p = "bad" -> IF i = 1 THEN DateText(n + 1, FALSE) ELSE DateText(i, TRUE)

\* the stored rows that hold the metric cells m under date pattern p
MkTable(m, p) ==
    [i \in 1..Len(m) |->
        [transaction_id |-> i,
         transaction_date |-> DateOf(p, i, Len(m)),
         revenue |-> m[i]]]

Cells == {Null} \cup {Cell(v) : v \in 0..MaxVal}

FreeTables ==
    UNION {{MkTable(m, p) : m \in [1..n -> Cells], p \in DatePatterns} : n \in 0..MaxRows}

BulkSizes == {4, 5, 9, 16}

\* n - 1 rows of 0 and one row of x, the outlier second to last in date order
BulkTables ==
    {MkTable([i \in 1..n |-> IF i = n - 1 THEN Cell(x) ELSE Cell(0)], "asc") :
        n \in BulkSizes, x \in {1, 10}}

LongSize == 60

\* a table with more rows than a report lists: the revenue is 0 or 2 by turns
\* and 1 on every ninth row, stored newest first or all on one date
LongTables ==
    {MkTable([i \in 1..LongSize |->
                 IF i % 9 = 0 THEN Cell(1) ELSE Cell(2 * (i % 2))], p) :
        p \in {"desc", "ties"}}

Tables == FreeTables \cup BulkTables \cup LongTables

\* a table_name that is SQL text: the f-string puts it into the query as it is
StackedDelete == "sales; DELETE FROM sales; SELECT * FROM sales"

\* the statements of f"SELECT * FROM {table_name}"
Statements(table_name) ==
    IF table_name = StackedDelete
    THEN <<[op |-> "select", table |-> "sales"], [op |-> "delete", table |-> "sales"],
           [op |-> "select", table |-> "sales"]>>
    ELSE <<[op |-> "select", table |-> table_name]>>

\* the table the last statement, whose rows are fetched, reads
QueryTable(table_name) == Statements(table_name)[Len(Statements(table_name))].table

RECURSIVE RunStatements(_, _)
\* the store once the engine has run the statements, on the read-write
\* connection the connector opens
RunStatements(store, sts) ==
    IF sts = <<>> THEN store
    ELSE RunStatements(IF sts[1].op = "delete" /\ sts[1].table \in DOMAIN store
                       THEN [store EXCEPT ![sts[1].table] = <<>>]
                       ELSE store,
                       Tail(sts))

\* the store after con.execute(f"SELECT * FROM {table_name} ...")
StoreAfter(store, table_name) == RunStatements(store, Statements(table_name))

\* SELECT * FROM table ORDER BY col: the rows in ascending order of the
\* column; the order of rows with equal keys is the engine's choice (tie)
execute_query_df(store, table_name, order_col, tie) ==
    IF QueryTable(table_name) \notin DOMAIN store
    THEN [ok |-> FALSE, exc |-> <<"Catalog Error: Table does not exist: ", table_name>>,
          rows |-> <<>>]
    ELSE IF order_col \notin Range(TableColumns)
    THEN [ok |-> FALSE, exc |-> <<"Binder Error: column not found: ", order_col>>,
          rows |-> <<>>]
    ELSE LET t == StoreAfter(store, table_name)[QueryTable(table_name)]
             n == Len(t)
             Key(i) == t[i][order_col].ord
             Before(j, i) == \/ Key(j) < Key(i)
                             \/ /\ Key(j) = Key(i)
                                /\ IF tie = "stored" THEN j < i ELSE j > i
             Place(i) == 1 + Cardinality({j \in 1..n : Before(j, i)})
         IN  [ok |-> TRUE, exc |-> <<>>,
              rows |-> [k \in 1..n |-> t[CHOOSE i \in 1..n : Place(i) = k]]]

-----------------------------------------------------------------------------
(* Series statistics (pandas) *)

RECURSIVE SumOver(_, _)
SumOver(f, S) ==
    IF S = {} THEN 0
    ELSE LET i == CHOOSE x \in S : TRUE IN f[i] + SumOver(f, S \ {i})

SeriesSum(s) == SumOver(s, DOMAIN s)

SeriesSumSq(s) == SumOver([i \in DOMAIN s |-> s[i] * s[i]], DOMAIN s)

SeriesLen(s) == Cardinality(DOMAIN s)

\* Series.mean(): NaN for an empty series
SeriesMean(s) ==
    IF SeriesLen(s) = 0 THEN NaN ELSE Rat(SeriesSum(s), SeriesLen(s))

\* Series.std(): the sample (n-1) standard deviation, NaN below 2 values
SeriesStd(s) ==
    LET n == SeriesLen(s)
        num == n * SeriesSumSq(s) - Sq(SeriesSum(s))
    IN  IF n < 2 THEN SurdNaN ELSE Surd(Sign(num), num, n * (n - 1))

\* the k-th smallest value of a series, k in 1..n
Kth(s, k) ==
    CHOOSE x \in Range(s) :
        /\ Cardinality({i \in DOMAIN s : s[i] < x}) < k
        /\ k <= Cardinality({i \in DOMAIN s : s[i] <= x})

\* Series.quantile(qn/qd), linear interpolation; NaN for an empty series
SeriesQuantile(s, qn, qd) ==
    LET n == SeriesLen(s)
        lo == (qn * (n - 1)) \div qd
        r == (qn * (n - 1)) % qd
    IN  IF n = 0 THEN NaN
        ELSE IF r = 0 THEN Rat(qd * Kth(s, lo + 1), qd)
        ELSE Rat(qd * Kth(s, lo + 1) + r * (Kth(s, lo + 2) - Kth(s, lo + 1)), qd)

SeriesMedian(s) == SeriesQuantile(s, 1, 2)

-----------------------------------------------------------------------------
(* Query history: QueryHistory *)

\* QueryHistory(): the capacity of the server's log
DefaultMaxEntries == 100

\* deque(maxlen).append: a full deque drops its oldest entry
deque_append(entries, maxlen, entry) ==
    IF maxlen = 0 THEN <<>>
    ELSE IF Len(entries) >= maxlen
    THEN Append(SubSeq(entries, Len(entries) - maxlen + 2, Len(entries)), entry)
    ELSE Append(entries, entry)

\* QueryHistory.record: the log with the new entry, whose id is the number of
\* retained entries plus one
record(entries, maxlen, query, query_type, result_count, success, error, generated_sql) ==
    deque_append(entries, maxlen,
                 [id |-> Len(entries) + 1,
                  timestamp |-> "now",
                  query |-> query,
                  query_type |-> query_type,
                  generated_sql |-> generated_sql,
                  result_count |-> result_count,
                  execution_time_ms |-> "elapsed",
                  success |-> success,
                  error |-> error])

\* list.reverse
reversed(seq) == [i \in 1..Len(seq) |-> seq[Len(seq) + 1 - i]]

\* seq[:limit]: a negative limit counts from the end
slice_to(seq, limit) ==
    LET stop == IF limit >= 0 THEN limit ELSE Len(seq) + limit
    IN  SubSeq(seq, 1, IF stop > Len(seq) THEN Len(seq) ELSE stop)

get_history_oldest_first(entries, limit) == slice_to(entries, limit)

\* QueryHistory.get_history
get_history(entries, limit) == slice_to(reversed(entries), limit)

\* QueryHistory.clear
clear(entries) == <<>>

-----------------------------------------------------------------------------
(* AI client: AIClient *)

MAX_RETRIES == 3

BackoffSeconds == 30

MaxRequests == 1

RECURSIVE Pow2(_)
Pow2(k) == IF k = 0 THEN 1 ELSE 2 * Pow2(k - 1)

\* the server without an API key holds no client (ai = None)
NoClient ==
    [present |-> FALSE, request_count |-> 0,
     total_input_tokens |-> 0, total_output_tokens |-> 0]

\* AIClient.__init__
NewClient ==
    [present |-> TRUE, request_count |-> 0,
     total_input_tokens |-> 0, total_output_tokens |-> 0]

\* what the API does with one request: it answers with a JSON text, with a
\* JSON text inside a markdown fence or with plain prose, or it fails with
\* a RateLimitError or with another APIError
ApiTexts == {"json", "fenced", "prose"}

ApiReplies == ApiTexts \cup {"rate_limit", "api_error"}

\* the token usage the API reports for one answered request
Usage == [input_tokens |-> 1, output_tokens |-> 1]

\* the replies to the successive requests of one analyze call: some
\* rate-limit failures, then a last reply
Scripts ==
    {[i \in 1..(MAX_RETRIES + 1) |-> IF i <= k THEN "rate_limit" ELSE last] :
        k \in 0..(MAX_RETRIES + 1), last \in ApiTexts \cup {"api_error"}}

NoScript == [i \in 1..(MAX_RETRIES + 1) |-> "api_error"]

RECURSIVE analyze_linear_backoff(_, _, _)
analyze_linear_backoff(client, script, _retries) ==
    LET reply == script[_retries + 1]
    IN  IF reply \in ApiTexts
        THEN [result |-> [response |-> reply,
                          input_tokens |-> Usage.input_tokens,
                          output_tokens |-> Usage.output_tokens,
                          latency_ms |-> "elapsed"],
              client |-> [client EXCEPT
                             !.total_input_tokens = @ + Usage.input_tokens,
                             !.total_output_tokens = @ + Usage.output_tokens,
                             !.request_count = @ + 1],
              requests |-> 1, replies |-> <<reply>>, sleeps |-> <<>>]
        ELSE IF reply = "rate_limit"
        THEN IF _retries >= MAX_RETRIES
             THEN [result |-> [error |-> <<"Rate limited after ", MAX_RETRIES, " retries">>,
                               type |-> "RateLimitError", latency_ms |-> "elapsed"],
                   client |-> client, requests |-> 1, replies |-> <<reply>>,
                   sleeps |-> <<>>]
             ELSE LET rest == analyze_linear_backoff(client, script, _retries + 1)
                  IN  [rest EXCEPT !.requests = @ + 1,
                                   !.replies = <<reply>> \o @,
                                   !.sleeps = <<BackoffSeconds * (_retries + 1)>> \o @]
        ELSE [result |-> [error |-> <<"APIError">>, type |-> "APIError",
                          latency_ms |-> "elapsed"],
              client |-> client, requests |-> 1, replies |-> <<reply>>,
              sleeps |-> <<>>]

RECURSIVE analyze_gives_up_early(_, _, _)
analyze_gives_up_early(client, script, _retries) ==
    LET reply == script[_retries + 1]
    IN  IF reply \in ApiTexts
        THEN [result |-> [response |-> reply,
                          input_tokens |-> Usage.input_tokens,
                          output_tokens |-> Usage.output_tokens,
                          latency_ms |-> "elapsed"],
              client |-> [client EXCEPT
                             !.total_input_tokens = @ + Usage.input_tokens,
                             !.total_output_tokens = @ + Usage.output_tokens,
                             !.request_count = @ + 1],
              requests |-> 1, replies |-> <<reply>>, sleeps |-> <<>>]
        ELSE IF reply = "rate_limit"
        THEN IF _retries >= MAX_RETRIES - 1
             THEN [result |-> [error |-> <<"Rate limited after ", MAX_RETRIES, " retries">>,
                               type |-> "RateLimitError", latency_ms |-> "elapsed"],
                   client |-> client, requests |-> 1, replies |-> <<reply>>,
                   sleeps |-> <<>>]
             ELSE LET rest == analyze_gives_up_early(client, script, _retries + 1)
                  IN  [rest EXCEPT !.requests = @ + 1,
                                   !.replies = <<reply>> \o @,
                                   !.sleeps = <<BackoffSeconds * Pow2(_retries)>> \o @]
        ELSE [result |-> [error |-> <<"APIError">>, type |-> "APIError",
                          latency_ms |-> "elapsed"],
              client |-> client, requests |-> 1, replies |-> <<reply>>,
              sleeps |-> <<>>]

RECURSIVE analyze(_, _, _)
\* AIClient.analyze: the result mapping, the client afterwards, the number of
\* requests sent, the API's reply to each and the seconds slept before each
\* retry
analyze(client, script, _retries) ==
    LET reply == script[_retries + 1]
    IN  IF reply \in ApiTexts
        THEN [result |-> [response |-> reply,
                          input_tokens |-> Usage.input_tokens,
                          output_tokens |-> Usage.output_tokens,
                          latency_ms |-> "elapsed"],
              client |-> [client EXCEPT
                             !.total_input_tokens = @ + Usage.input_tokens,
                             !.total_output_tokens = @ + Usage.output_tokens,
                             !.request_count = @ + 1],
              requests |-> 1, replies |-> <<reply>>, sleeps |-> <<>>]
        ELSE IF reply = "rate_limit"
        THEN IF _retries >= MAX_RETRIES
             THEN [result |-> [error |-> <<"Rate limited after ", MAX_RETRIES, " retries">>,
                               type |-> "RateLimitError", latency_ms |-> "elapsed"],
                   client |-> client, requests |-> 1, replies |-> <<reply>>,
                   sleeps |-> <<>>]
             ELSE LET rest == analyze(client, script, _retries + 1)
                  IN  [rest EXCEPT !.requests = @ + 1,
                                   !.replies = <<reply>> \o @,
                                   !.sleeps = <<BackoffSeconds * Pow2(_retries)>> \o @]
        ELSE [result |-> [error |-> <<"APIError">>, type |-> "APIError",
                          latency_ms |-> "elapsed"],
              client |-> client, requests |-> 1, replies |-> <<reply>>,
              sleeps |-> <<>>]

\* _parse_json_response: the parsed mapping, or None for a text without JSON
_parse_json_response(text) ==
    IF text \in {"json", "fenced"} THEN [parsed |-> TRUE] ELSE [parsed |-> FALSE]

\* AIClient.explain_anomaly: one analyze call; an answer gains 'analysis'
explain_anomaly(client, script, anomaly_data) ==
    LET sent == analyze(client, script, 0)
    IN  [prompt |-> anomaly_data,
         client |-> sent.client, requests |-> sent.requests,
         replies |-> sent.replies, sleeps |-> sent.sleeps,
         result |-> IF "error" \notin DOMAIN sent.result
                    THEN sent.result
                         @@ [analysis |-> _parse_json_response(sent.result.response)]
                    ELSE sent.result]

-----------------------------------------------------------------------------
(* Anomaly detector: detect_anomalies *)

\* a threshold is the rational <<n, d>>, d > 0; an argument left out is Omitted
Omitted == <<>>

DefaultThreshold == <<3, 1>>

IqrConventionalThreshold == <<3, 2>>

HeadLimit == 50

SampleLimit == 5

zscore_detect_inclusive(series, threshold) ==
    LET mean == SeriesMean(series)
        std == SeriesStd(series)
    IN  IF StdIsZero(std) THEN [i \in DOMAIN series |-> FALSE]
        ELSE [i \in DOMAIN series |->
                 RatioGe(series[i], mean, std, threshold[1], threshold[2])]

\* the mask over the series' own index: z-score above the threshold
_zscore_detect(series, threshold) ==
    LET mean == SeriesMean(series)
        std == SeriesStd(series)
    IN  IF StdIsZero(std) THEN [i \in DOMAIN series |-> FALSE]
        ELSE [i \in DOMAIN series |->
                 RatioGt(series[i], mean, std, threshold[1], threshold[2])]

\* x < a - t * (b - a) for floats a, b (NaN compares false), t = tn/td
BelowFence(x, a, b, tn, td) ==
    IF a.nan \/ b.nan THEN FALSE
    ELSE x * a.d * b.d * td < a.n * b.d * td - tn * (b.n * a.d - a.n * b.d)

\* x > b + t * (b - a)
AboveFence(x, a, b, tn, td) ==
    IF a.nan \/ b.nan THEN FALSE
    ELSE x * a.d * b.d * td > b.n * a.d * td + tn * (b.n * a.d - a.n * b.d)

iqr_detect_inclusive(series, threshold) ==
    LET q1 == SeriesQuantile(series, 1, 4)
        q3 == SeriesQuantile(series, 3, 4)
    IN  [i \in DOMAIN series |->
            /\ ~q1.nan /\ ~q3.nan
            /\ \/ ~AboveFence(series[i], q3, q1, threshold[1], threshold[2])
               \/ ~BelowFence(series[i], q3, q1, threshold[1], threshold[2])]

\* the mask over the series' own index: outside the IQR fences
_iqr_detect(series, threshold) ==
    LET q1 == SeriesQuantile(series, 1, 4)
        q3 == SeriesQuantile(series, 3, 4)
    IN  [i \in DOMAIN series |->
            \/ BelowFence(series[i], q1, q3, threshold[1], threshold[2])
            \/ AboveFence(series[i], q1, q3, threshold[1], threshold[2])]

\* the threshold parameter: the caller's value, or the signature's default
threshold_param_per_method(args) ==
    IF args.threshold # Omitted THEN args.threshold
    ELSE IF args.method = "iqr" THEN IqrConventionalThreshold
    ELSE DefaultThreshold

threshold_param(args) ==
    IF args.threshold = Omitted THEN DefaultThreshold ELSE args.threshold

\* the method dispatch: the mask, or no mask for an unknown method
detect_mask_fallback(method, metric, threshold) ==
    IF method = "iqr"
    THEN [known |-> TRUE, mask |-> _iqr_detect(metric, threshold)]
    ELSE [known |-> TRUE, mask |-> _zscore_detect(metric, threshold)]

detect_mask(method, metric, threshold) ==
    IF method = "zscore"
    THEN [known |-> TRUE, mask |-> _zscore_detect(metric, threshold)]
    ELSE IF method = "iqr"
    THEN [known |-> TRUE, mask |-> _iqr_detect(metric, threshold)]
    ELSE [known |-> FALSE, mask |-> <<>>]

\* pd.to_datetime(df[date_column]) inside try/except: the column converted,
\* or the frame as it was when a value does not parse or the column is absent
convert_dates(rows, date_column) ==
    IF date_column \notin Range(TableColumns) THEN rows
    ELSE IF \E i \in DOMAIN rows : ~rows[i][date_column].parses THEN rows
    ELSE [i \in DOMAIN rows |->
             [rows[i] EXCEPT ![date_column] = Timestamp(rows[i][date_column].ord)]]

\* df[metric_column].dropna(): the non-null values under their row labels
dropna(rows, metric_column) ==
    [i \in {j \in DOMAIN rows : ~IsNull(rows[j][metric_column])} |->
        rows[i][metric_column][1]]

\* str(row.get(date_column, "N/A"))
record_date(row, date_column) ==
    IF date_column \in DOMAIN row
    THEN [str |-> row[date_column].kind, of |-> row[date_column].ord]
    ELSE [str |-> "N/A", of |-> 0]

\* the labels of a frame's rows a mask selects, in row order
RECURSIVE SelectLabels(_, _, _)
SelectLabels(mask, i, n) ==
    IF i > n THEN <<>>
    ELSE (IF mask[i] THEN <<i>> ELSE <<>>) \o SelectLabels(mask, i + 1, n)

DataFrameLast(seq, k) ==
    IF Len(seq) <= k THEN seq ELSE SubSeq(seq, Len(seq) - k + 1, Len(seq))

\* DataFrame.head(k): the first k rows
DataFrameHead(seq, k) == IF Len(seq) <= k THEN seq ELSE SubSeq(seq, 1, k)

\* one anomaly record (the loop body of detect_anomalies)
anomaly_record(row, metric_column, date_column, mean, std) ==
    [date |-> record_date(row, date_column),
     value |-> row[metric_column][1],
     severity |-> _classify_severity(row[metric_column][1], mean, std),
     deviation |->
        IF ~std.nan /\ std.sgn > 0
        THEN RoundSqrtTo(Sq(row[metric_column][1] * mean.d - mean.n) * std.d,
                         Sq(mean.d) * std.n, 100)
        ELSE Rat(0, 1),
     transaction_id |-> row.transaction_id]

Severities == {"low", "medium", "high", "critical"}

value_counts_listed(sevs) ==
    LET head == DataFrameHead(sevs, HeadLimit)
    IN  [l \in {head[i] : i \in DOMAIN head} |->
            Cardinality({i \in DOMAIN head : head[i] = l})]

\* Series.value_counts().to_dict(): the labels that occur, with their counts
value_counts(sevs) ==
    [l \in {sevs[i] : i \in DOMAIN sevs} |->
        Cardinality({i \in DOMAIN sevs : sevs[i] = l})]

NoResult == [none |-> TRUE]

NoLocals == [df |-> <<>>, metric |-> <<>>, mask |-> <<>>]

\* asked: the explanation requests the call made of the AI client
Returned(stage, result, locals) ==
    [raised |-> "", stage |-> stage, result |-> result, locals |-> locals,
     asked |-> <<>>]

Raised(stage, exc, locals) ==
    [raised |-> exc, stage |-> stage, result |-> NoResult, locals |-> locals,
     asked |-> <<>>]

\* the text handed to the AI client: the count, the baseline to 2 decimals,
\* the severity histogram and the first 5 records
anomaly_summary(found, mean, std, severity_breakdown, anomalies) ==
    [found |-> found, mean |-> RoundTo(mean, 100), std |-> RoundSurdTo(std, 100),
     severity_breakdown |-> severity_breakdown,
     sample |-> DataFrameHead(anomalies, SampleLimit)]

with_explanation_or_error(result, ai_result) ==
    IF "analysis" \in DOMAIN ai_result
    THEN result @@ [ai_explanation |-> ai_result.analysis]
    ELSE [error |-> ai_result.error]

\* the report with the AI's analysis added when the AI result holds one
with_explanation(result, ai_result) ==
    IF "analysis" \in DOMAIN ai_result
    THEN result @@ [ai_explanation |-> ai_result.analysis]
    ELSE result

\* detect_anomalies(table_name, metric_column, date_column, method, threshold,
\* explain) against the store; env.tie is the engine's order of rows with
\* equal dates, env.ai the server's AI client, env.script the API's replies
detect_anomalies(store, args, env) ==
    LET threshold == threshold_param(args)
        loaded == execute_query_df(store, args.table_name, args.date_column, env.tie)
    IN
    IF ~loaded.ok
    THEN Returned("load", [error |-> <<"Failed to load data: ">> \o loaded.exc], NoLocals)
    ELSE IF args.metric_column \notin Range(TableColumns)
    THEN Returned("column",
                  [error |-> <<"Column '", args.metric_column, "' not found in '",
                               args.table_name, "'">>],
                  [NoLocals EXCEPT !.df = loaded.rows])
    ELSE
    LET df == convert_dates(loaded.rows, args.date_column)
        metric == dropna(df, args.metric_column)
        detected == detect_mask(args.method, metric, threshold)
        locals == [df |-> df, metric |-> metric, mask |-> detected.mask]
    IN
    IF ~detected.known
    THEN Returned("method",
                  [error |-> <<"Unknown method '", args.method,
                               "'. Use 'zscore' or 'iqr'.">>],
                  locals)
    \* df[anomaly_mask]: a boolean Series that lacks a label of the frame
    \* cannot be aligned with it
    ELSE IF DOMAIN detected.mask # DOMAIN df
    THEN Raised("select", "IndexingError", locals)
    ELSE
    LET flagged == SelectLabels(detected.mask, 1, Len(df))
        mean == SeriesMean(metric)
        std == SeriesStd(metric)
        sevs == [k \in 1..Len(flagged) |->
                    _classify_severity(df[flagged[k]][args.metric_column][1], mean, std)]
        listed == DataFrameHead(flagged, HeadLimit)
    IN
    IF Len(flagged) = 0
    THEN Returned("empty",
                  [table |-> args.table_name,
                   metric |-> args.metric_column,
                   method |-> args.method,
                   threshold |-> threshold,
                   anomalies_found |-> 0,
                   message |-> "No anomalies detected with the current threshold."],
                  locals)
    ELSE
    LET anomalies == [k \in 1..Len(listed) |->
                         anomaly_record(df[listed[k]],
                                        args.metric_column, args.date_column,
                                        mean, std)]
        result == [table |-> args.table_name,
                   metric |-> args.metric_column,
                   method |-> args.method,
                   threshold |-> threshold,
                   total_records |-> Len(df),
                   anomalies_found |-> Len(flagged),
                   anomaly_rate_pct |-> RoundTo(Rat(Len(flagged) * 100, Len(df)), 100),
                   baseline |-> [mean |-> RoundTo(mean, 100),
                                 std |-> RoundSurdTo(std, 100),
                                 median |-> RoundTo(SeriesMedian(metric), 100)],
                   severity_breakdown |-> value_counts(sevs),
                   anomalies |-> anomalies]
    IN
    IF args.explain /\ env.ai.present /\ Len(anomalies) > 0
    THEN LET ai_result ==
                 explain_anomaly(env.ai, env.script,
                                 anomaly_summary(Len(flagged), mean, std,
                                                 result.severity_breakdown, anomalies))
         IN  [Returned("report", with_explanation(result, ai_result.result), locals)
                 EXCEPT !.asked = <<ai_result>>]
    ELSE Returned("report", result, locals)

-----------------------------------------------------------------------------
(* The specification of the anomaly detector *)

TableNames == {"sales", "fake_table"}

MetricColumns == {"revenue", "nonexistent"}

DateColumns == {"transaction_date", "missing_date"}

Methods == {"zscore", "iqr", "invalid"}

Thresholds == {Omitted, <<-1, 1>>, <<0, 1>>, <<1, 2>>, <<1, 1>>, <<3, 2>>, <<3, 1>>}

\* calls that leave `explain` at its default
DetectArgs ==
    [table_name : TableNames, metric_column : MetricColumns,
     date_column : DateColumns, method : Methods, threshold : Thresholds,
     explain : {FALSE}]

Ties == {"stored", "reversed"}

\* handle_call_tool runs detect_anomalies(db=db, ai=ai, **arguments); the
\* AI client keeps the usage of the requests it answered
CallDetect(args, tie, script) ==
    /\ call' = args
    /\ outcome' = detect_anomalies(db, args, [tie |-> tie, ai |-> ai, script |-> script])
    /\ db' = StoreAfter(db, args.table_name)
    /\ ai' = IF outcome'.asked = <<>> THEN ai ELSE outcome'.asked[1].client

NoCall == [none |-> TRUE]

\* the server starts on a store that holds some sales table; nothing was called
InitDetect ==
    /\ db \in {[sales |-> t] : t \in Tables}
    /\ call = NoCall
    /\ outcome = NoCall
    /\ sevIn = NoCall
    /\ sevOut = "none"
    /\ adb = [sales |-> <<>>]
    /\ acall = NoCall
    /\ aout = NoCall
    /\ ai = NoClient
    /\ history = <<>>
    /\ max_entries = DefaultMaxEntries
    /\ hcall = NoCall
    /\ qcall = NoCall
    /\ qout = NoCall

\* a client calls the detect_anomalies tool
DetectAnomalies ==
    /\ "none" \in DOMAIN call
    /\ \E args \in DetectArgs, tie \in Ties : CallDetect(args, tie, NoScript)
    /\ UNCHANGED <<sevIn, sevOut, adb, acall, aout, history,
                 max_entries, hcall, qcall, qout>>

\* the dispatcher hands the result to the client and is ready for the next call
ReturnDetectResponse ==
    /\ "none" \notin DOMAIN call
    /\ call' = NoCall
    /\ outcome' = NoCall
    /\ UNCHANGED <<db, sevIn, sevOut, adb, acall, aout, ai, history,
                 max_entries, hcall, qcall, qout>>

NextDetect == DetectAnomalies \/ ReturnDetectResponse

SpecDetect == InitDetect /\ [][NextDetect]_vars

-----------------------------------------------------------------------------
(* The specification of the anomaly detector on tables with far outliers *)

\* n rows, all of one value but an outlier, or but two outliers of which one
\* lies nearer; the outlier lies above or below the rest
OutlierTables ==
    {MkTable([i \in 1..n |-> IF i = n - 1 THEN Cell(x)
                             ELSE IF i = 2 THEN Cell(y)
                             ELSE Cell(base)], "asc") :
        n \in {16, 25, 36},
        x \in {0, 10}, y \in {0, 1, 9, 10}, base \in {0, 10}}

OutlierArgs ==
    [table_name : {"sales"}, metric_column : {"revenue"},
     date_column : {"transaction_date"}, method : {"zscore", "iqr"},
     threshold : {Omitted, <<1, 2>>, <<3, 1>>, <<7, 2>>, <<4, 1>>, <<9, 2>>,
                  <<5, 1>>, <<6, 1>>},
     explain : {FALSE}]

InitOutlier ==
    /\ db \in {[sales |-> t] : t \in OutlierTables}
    /\ call = NoCall
    /\ outcome = NoCall
    /\ sevIn = NoCall
    /\ sevOut = "none"
    /\ adb = [sales |-> <<>>]
    /\ acall = NoCall
    /\ aout = NoCall
    /\ ai = NoClient
    /\ history = <<>>
    /\ max_entries = DefaultMaxEntries
    /\ hcall = NoCall
    /\ qcall = NoCall
    /\ qout = NoCall

\* a client calls the detect_anomalies tool with a threshold of its choice
DetectOutliers ==
    /\ "none" \in DOMAIN call
    /\ \E args \in OutlierArgs : CallDetect(args, "stored", NoScript)
    /\ UNCHANGED <<sevIn, sevOut, adb, acall, aout, history,
                   max_entries, hcall, qcall, qout>>

NextOutlier == DetectOutliers \/ ReturnDetectResponse

SpecOutlier == InitOutlier /\ [][NextOutlier]_vars

-----------------------------------------------------------------------------
(* The specification of the anomaly detector with the AI explanation *)

ExplainTables == BulkTables \cup {t \in FreeTables : Len(t) <= 1}

ExplainArgs ==
    [table_name : TableNames, metric_column : MetricColumns,
     date_column : DateColumns, method : Methods, threshold : Thresholds,
     explain : BOOLEAN]

\* the server starts with or without an API key
InitExplain ==
    /\ db \in {[sales |-> t] : t \in ExplainTables}
    /\ ai \in {NoClient, NewClient}
    /\ call = NoCall
    /\ outcome = NoCall
    /\ sevIn = NoCall
    /\ sevOut = "none"
    /\ adb = [sales |-> <<>>]
    /\ acall = NoCall
    /\ aout = NoCall
    /\ history = <<>>
    /\ max_entries = DefaultMaxEntries
    /\ hcall = NoCall
    /\ qcall = NoCall
    /\ qout = NoCall

\* a client calls the detect_anomalies tool, with or without `explain`; the
\* API's replies matter only to a call that can reach the client
DetectAnomaliesExplain ==
    /\ "none" \in DOMAIN call
    /\ ai.request_count < MaxRequests
    /\ \E args \in ExplainArgs, tie \in Ties :
          \E script \in (IF args.explain /\ ai.present THEN Scripts ELSE {NoScript}) :
              CallDetect(args, tie, script)
    /\ UNCHANGED <<sevIn, sevOut, adb, acall, aout, history,
                 max_entries, hcall, qcall, qout>>

NextExplain == DetectAnomaliesExplain \/ ReturnDetectResponse

SpecExplain == InitExplain /\ [][NextExplain]_vars

-----------------------------------------------------------------------------
(* Dataset profiler: analyze_data *)

\* the columns of the profiled table, in table order, and their dtypes
AColumns ==
    <<"transaction_date", "category", "revenue", "profit", "quantity",
      "unit_price", "discount_pct", "cost", "is_active">>

ColumnDtype ==
    [transaction_date |-> "object", category |-> "object", revenue |-> "float64",
     profit |-> "float64", quantity |-> "int64", unit_price |-> "float64",
     discount_pct |-> "int64", cost |-> "float64", is_active |-> "bool"]

\* the dtypes select_dtypes(include=[np.number]) keeps
NumericDtypes == {"float64", "int64"}

\* the dtypes select_dtypes(include=["object", "category"]) keeps
CategoricalDtypes == {"object", "category"}

\* the shapes of the columns that go with a revenue column
AShapes ==
    {[profit |-> "mirror", category |-> "alternate", dates |-> "asc"],
     [profit |-> "nulls", category |-> "same", dates |-> "ties"],
     [profit |-> "copy", category |-> "alternate", dates |-> "bad"],
     [profit |-> "copy", category |-> "nullfirst", dates |-> "desc"]}

ProfitOf(p, c, i) ==
    CASE p = "copy" -> c
      [] p = "mirror" -> IF IsNull(c) THEN Cell(0) ELSE Cell(MaxVal - c[1])
      [] p = "nulls" -> IF i = 1 THEN Null ELSE c

CategoryOf(p, i) ==
    CASE p = "same" -> Cell("Software")
      [] p = "alternate" -> IF i % 2 = 1 THEN Cell("Electronics") ELSE Cell("Software")
      [] p = "nullfirst" -> IF i = 1 THEN Null ELSE Cell("Software")

MkATable(m, shape) ==
    [i \in 1..Len(m) |->
        [transaction_date |-> DateOf(shape.dates, i, Len(m)),
         category |-> CategoryOf(shape.category, i),
         revenue |-> m[i],
         profit |-> ProfitOf(shape.profit, m[i], i),
         quantity |-> Cell(i % 5),
         unit_price |-> Cell((i * i) % 7),
         discount_pct |-> Cell(i % 2),
         cost |-> Cell((3 * i) % 4),
         is_active |-> Cell(i % 2 = 1)]]

LongASize == 22

\* a table with more dates than a grouped analysis lists
LongATables ==
    {MkATable([i \in 1..LongASize |-> Cell(i % 3)],
              [profit |-> "mirror", category |-> "alternate", dates |-> "asc"])}

\* a table whose revenue and cost have the coefficient -7 / sqrt(544), about
\* -0.30012: past 0.3, and -0.3 once rounded to 3 decimals
NearThresholdATables ==
    {MkATable(<<Cell(0), Cell(1), Cell(2), Cell(0), Cell(0)>>,
              [profit |-> "copy", category |-> "alternate", dates |-> "asc"])}

ATables ==
    UNION {{MkATable(m, sh) : m \in [1..n -> Cells], sh \in AShapes} : n \in 0..MaxRows}
    \cup LongATables \cup NearThresholdATables

RECURSIVE SelectSeq2(_, _)
\* the subsequence of the names of seq that lie in the set S
SelectSeq2(seq, S) ==
    IF seq = <<>> THEN <<>>
    ELSE (IF seq[1] \in S THEN <<seq[1]>> ELSE <<>>) \o SelectSeq2(Tail(seq), S)

\* a date cell has no null in the model; the other cells are <<>> when null
CellIsNull(row, c) == IF c = "transaction_date" THEN FALSE ELSE IsNull(row[c])

NullCount(rows, c) == Cardinality({i \in DOMAIN rows : CellIsNull(rows[i], c)})

SeriesMin(s) ==
    IF SeriesLen(s) = 0 THEN NaN ELSE Rat(Kth(s, 1), 1)

SeriesMax(s) ==
    IF SeriesLen(s) = 0 THEN NaN ELSE Rat(Kth(s, SeriesLen(s)), 1)

\* DataFrame.describe().round(2) for one numeric column
describe(rows, c) ==
    LET s == dropna(rows, c)
    IN  [count |-> Rat(SeriesLen(s) * 100, 100),
         mean |-> RoundTo(SeriesMean(s), 100),
         std |-> RoundSurdTo(SeriesStd(s), 100),
         min |-> RoundTo(SeriesMin(s), 100),
         q25 |-> RoundTo(SeriesQuantile(s, 1, 4), 100),
         q50 |-> RoundTo(SeriesQuantile(s, 1, 2), 100),
         q75 |-> RoundTo(SeriesQuantile(s, 3, 4), 100),
         max |-> RoundTo(SeriesMax(s), 100)]

\* DataFrame.corr().round(3) at one pair: Pearson's r over the rows where
\* both cells are non-null, NaN when either column is constant there
corr(rows, a, b) ==
    LET both == {i \in DOMAIN rows : ~IsNull(rows[i][a]) /\ ~IsNull(rows[i][b])}
        x == [i \in both |-> rows[i][a][1]]
        y == [i \in both |-> rows[i][b][1]]
        xy == [i \in both |-> x[i] * y[i]]
        n == Cardinality(both)
        num == n * SeriesSum(xy) - SeriesSum(x) * SeriesSum(y)
        vx == n * SeriesSumSq(x) - Sq(SeriesSum(x))
        vy == n * SeriesSumSq(y) - Sq(SeriesSum(y))
    IN  IF n = 0 \/ vx = 0 \/ vy = 0 THEN NaN
        ELSE LET r == RoundSqrtTo(Sq(num), vx * vy, 1000)
             IN  Rat(Sign(num) * r.n, 1000)

CorrThreshold == <<3, 10>>

\* abs(val) > 0.3 on a float
AbsAboveCorrThreshold(val) ==
    ~val.nan /\ Abs(val.n) * CorrThreshold[2] > CorrThreshold[1] * val.d

RECURSIVE UpperPairs(_, _, _)
\* the pairs (i, j), i < j, of the loops over the correlation matrix
UpperPairs(i, j, n) ==
    IF i > n THEN <<>>
    ELSE IF j > n THEN UpperPairs(i + 1, i + 2, n)
    ELSE <<<<i, j>>>> \o UpperPairs(i, j + 1, n)

RECURSIVE FilterCorr(_, _, _)
FilterCorr(rows, cols, pairs) ==
    IF pairs = <<>> THEN <<>>
    ELSE LET val == corr(rows, cols[pairs[1][1]], cols[pairs[1][2]])
         IN  (IF AbsAboveCorrThreshold(val)
              THEN <<[col_a |-> cols[pairs[1][1]], col_b |-> cols[pairs[1][2]],
                      correlation |-> val]>>
              ELSE <<>>) \o FilterCorr(rows, cols, Tail(pairs))

\* list.sort(key=abs(correlation), reverse=True): stable, largest first
SortCorr(list) ==
    LET n == Len(list)
        Before(j, i) == \/ Abs(list[j].correlation.n) > Abs(list[i].correlation.n)
                        \/ /\ Abs(list[j].correlation.n) = Abs(list[i].correlation.n)
                           /\ j < i
        Place(i) == 1 + Cardinality({j \in 1..n : Before(j, i)})
    IN  [k \in 1..n |-> list[CHOOSE i \in 1..n : Place(i) = k]]

TopCorrLimit == 10

top_correlations_uncapped(rows, numeric_cols) ==
    SortCorr(FilterCorr(rows, numeric_cols, UpperPairs(1, 2, Len(numeric_cols))))

\* the loops over the matrix, the sort and the [:10] slice
top_correlations(rows, numeric_cols) ==
    DataFrameHead(SortCorr(FilterCorr(rows, numeric_cols,
                                      UpperPairs(1, 2, Len(numeric_cols)))),
                  TopCorrLimit)

TopValueLimit == 10

\* one entry of the categorical summary: nunique, value_counts().head(10), nulls
categorical_summary(rows, c) ==
    LET present == {i \in DOMAIN rows : ~CellIsNull(rows[i], c)}
        values == {rows[i][c] : i \in present}
        Cnt(v) == Cardinality({i \in present : rows[i][c] = v})
        First(v) == CHOOSE i \in present :
                        rows[i][c] = v /\ \A j \in present : rows[j][c] = v => i <= j
        Ahead(v) == Cardinality({w \in values :
                        \/ Cnt(w) > Cnt(v)
                        \/ Cnt(w) = Cnt(v) /\ First(w) < First(v)})
    IN  [unique_values |-> Cardinality(values),
         top_values |-> [v \in {w \in values : Ahead(w) < TopValueLimit} |-> Cnt(v)],
         null_count |-> NullCount(rows, c)]

\* the data-quality section, over every column of the loaded frame
data_quality(rows, cols) ==
    LET nulls == [c \in Range(cols) |-> NullCount(rows, c)]
    IN  [null_counts |-> [c \in {x \in Range(cols) : nulls[x] > 0} |-> nulls[c]],
         null_percentage |->
            RoundTo(Rat(SumOver(nulls, Range(cols)) * 100, Len(rows) * Len(cols)), 100),
         duplicate_rows |->
            Cardinality({i \in DOMAIN rows : \E j \in 1..(i - 1) : rows[j] = rows[i]})]

GroupTargetLimit == 3

GroupLimit == 20

\* the place of a group key in ascending key order
KeyOrd(group_by, cell) ==
    CASE group_by = "category" -> (IF cell[1] = "Electronics" THEN 1 ELSE 2)
      [] group_by = "is_active" -> (IF cell[1] THEN 1 ELSE 0)
      [] group_by = "transaction_date" -> cell.ord
      [] OTHER -> cell[1]

group_targets_with_key(numeric_cols, group_by) ==
    DataFrameHead(numeric_cols, GroupTargetLimit)

\* the columns aggregated by the grouped analysis
group_targets(numeric_cols, group_by) ==
    DataFrameHead(SelectSeq2(numeric_cols, Range(numeric_cols) \ {group_by}),
                  GroupTargetLimit)

\* groupby(group_by)[targets].agg(mean, sum, count).round(2).head(20)
grouped_analysis(rows, group_by, targets) ==
    LET present == {i \in DOMAIN rows : ~CellIsNull(rows[i], group_by)}
        keys == {rows[i][group_by] : i \in present}
        Ahead(k) == Cardinality({w \in keys : KeyOrd(group_by, w) < KeyOrd(group_by, k)})
        Members(k, c) == [i \in {j \in present : rows[j][group_by] = k /\ ~IsNull(rows[j][c])}
                            |-> rows[i][c][1]]
    IN  [group_by |-> group_by,
         groups |->
            [k \in {w \in keys : Ahead(w) < GroupLimit} |->
                [c \in Range(targets) |->
                    [mean |-> RoundTo(SeriesMean(Members(k, c)), 100),
                     sum |-> RoundTo(Rat(SeriesSum(Members(k, c)), 1), 100),
                     count |-> SeriesLen(Members(k, c))]]]]

\* "date" in c.lower()
IsDateLike(c) == c \in {"transaction_date", "missing_date"}

\* Series.dt.to_period("M"): the calendar month of a date; two consecutive
\* dates of the model share a month
MonthOf(ord) == (ord + 1) \div 2

trend_direction_inclusive(first, last) ==
    IF last >= first THEN "increasing" ELSE "decreasing"

\* "increasing" if values[-1] > values[0] else "decreasing"
trend_direction(first, last) ==
    IF last > first THEN "increasing" ELSE "decreasing"

\* round((values[-1] - values[0]) / values[0] * 100, 1) if values[0] != 0 else 0
pct_change(first, last) ==
    IF first # 0
    THEN RoundTo(Rat((last - first) * 100 * Sign(first), Abs(first)), 10)
    ELSE Rat(0, 1)

trend_or_failure(rows, date_col, metric_col) ==
    <<[date_column |-> date_col, metric |-> metric_col, direction |-> "unknown",
       overall_change_pct |-> Rat(0, 1), periods |-> 0]>>

\* the trend section: the record, or no record when the dates do not parse
\* (the except branch) or fewer than 2 monthly buckets exist
trend(rows, date_col, metric_col) ==
    LET months == {MonthOf(rows[i][date_col].ord) : i \in DOMAIN rows}
        first == CHOOSE m \in months : \A k \in months : m <= k
        last == CHOOSE m \in months : \A k \in months : m >= k
        Bucket(m) == SeriesSum([i \in {j \in DOMAIN rows :
                                        /\ MonthOf(rows[j][date_col].ord) = m
                                        /\ ~IsNull(rows[j][metric_col])}
                                  |-> rows[i][metric_col][1]])
    IN  IF \E i \in DOMAIN rows : ~rows[i][date_col].parses THEN <<>>
        ELSE IF Cardinality(months) <= 1 THEN <<>>
        ELSE <<[date_column |-> date_col,
                metric |-> metric_col,
                direction |-> trend_direction(Bucket(first), Bucket(last)),
                overall_change_pct |-> pct_change(Bucket(first), Bucket(last)),
                periods |-> Cardinality(months)]>>

\* the requested names that are not columns of the frame, in request order
missing_first_only(columns) ==
    DataFrameHead(SelectSeq2(columns, Range(columns) \ Range(AColumns)), 1)

missing_columns(columns) ==
    SelectSeq2(columns, Range(columns) \ Range(AColumns))

\* an optional key of the result
Section(present, key, value) ==
    IF present THEN key :> value ELSE [x \in {} |-> TRUE]

\* analyze_data(table_name, columns, group_by) against the store; columns
\* None or [] is <<>>, group_by None or '' is ""
analyze_data(store, args) ==
    IF QueryTable(args.table_name) \notin DOMAIN store
    THEN [error |-> <<"Failed to load table '", args.table_name,
                      "': Catalog Error: Table does not exist">>]
    ELSE
    LET df == StoreAfter(store, args.table_name)[QueryTable(args.table_name)]
        missing == missing_columns(args.columns)
        selected == IF args.columns # <<>> THEN args.columns ELSE AColumns
        numeric_cols ==
            SelectSeq2(selected, {c \in Range(AColumns) : ColumnDtype[c] \in NumericDtypes})
        categorical_cols ==
            SelectSeq2(selected,
                       {c \in Range(AColumns) : ColumnDtype[c] \in CategoricalDtypes})
        targets == group_targets(numeric_cols, args.group_by)
        date_cols == SelectSeq2(AColumns, {c \in Range(AColumns) : IsDateLike(c)})
        tr == IF date_cols # <<>> /\ numeric_cols # <<>>
              THEN trend(df, date_cols[1], numeric_cols[1]) ELSE <<>>
    IN
    IF Len(df) = 0
    THEN [error |-> <<"Table '", args.table_name, "' is empty">>]
    ELSE IF args.columns # <<>> /\ missing # <<>>
    THEN [error |-> <<"Columns not found: ">> \o missing]
    ELSE
        [table |-> args.table_name,
         total_rows |-> Len(df),
         total_columns |-> Len(AColumns),
         columns_analyzed |-> numeric_cols \o categorical_cols,
         data_quality |-> data_quality(df, AColumns)]
        @@ Section(numeric_cols # <<>>, "numeric_summary",
                   [c \in Range(numeric_cols) |-> describe(df, c)])
        @@ Section(Len(numeric_cols) > 1, "top_correlations",
                   top_correlations(df, numeric_cols))
        @@ Section(categorical_cols # <<>>, "categorical_summary",
                   [c \in Range(categorical_cols) |-> categorical_summary(df, c)])
        @@ Section(/\ args.group_by # ""
                   /\ args.group_by \in Range(AColumns)
                   /\ numeric_cols # <<>>
                   /\ targets # <<>>,
                   "grouped_analysis", grouped_analysis(df, args.group_by, targets))
        @@ Section(tr # <<>>, "trend", tr[1])

-----------------------------------------------------------------------------
(* The specification of the severity policy *)

SevValues == 0..MaxSev

SevMeans == {0, 1}

SevStds == -1..3

\* nothing was classified yet
InitSeverity ==
    /\ sevIn = NoCall
    /\ sevOut = "none"
    /\ db = [sales |-> <<>>]
    /\ call = NoCall
    /\ outcome = NoCall
    /\ adb = [sales |-> <<>>]
    /\ acall = NoCall
    /\ aout = NoCall
    /\ ai = NoClient
    /\ history = <<>>
    /\ max_entries = DefaultMaxEntries
    /\ hcall = NoCall
    /\ qcall = NoCall
    /\ qout = NoCall

\* a caller classifies one value against a mean and a standard deviation
ClassifySeverity ==
    /\ \E value \in SevValues, mean \in SevMeans, std \in SevStds :
          /\ sevIn' = [value |-> value, mean |-> mean, std |-> std]
          /\ sevOut' = _classify_severity(value, Rat(mean, 1), SurdOfInt(std))
    /\ UNCHANGED <<db, call, outcome, adb, acall, aout, ai, history,
                 max_entries, hcall, qcall, qout>>

SpecSeverity == InitSeverity /\ [][ClassifySeverity]_vars

-----------------------------------------------------------------------------
(* The specification of the dataset profiler *)

RequestNames ==
    {"revenue", "profit", "category", "transaction_date", "nonexistent", "bogus"}

ColumnRequests ==
    {<<>>} \cup {<<a>> : a \in RequestNames}
           \cup {<<p[1], p[2]>> : p \in {q \in RequestNames \X RequestNames : q[1] # q[2]}}

GroupBys == {"", "category", "revenue", "transaction_date", "bogus"}

AnalyzeArgs ==
    [table_name : {"sales"}, columns : ColumnRequests, group_by : GroupBys]
    \cup [table_name : {"fake_table"}, columns : {<<>>, <<"nonexistent">>},
          group_by : {""}]

\* the server starts on a store that holds some sales table; nothing was called
InitAnalyze ==
    /\ adb \in {[sales |-> t] : t \in ATables}
    /\ acall = NoCall
    /\ aout = NoCall
    /\ db = [sales |-> <<>>]
    /\ call = NoCall
    /\ outcome = NoCall
    /\ sevIn = NoCall
    /\ sevOut = "none"
    /\ ai = NoClient
    /\ history = <<>>
    /\ max_entries = DefaultMaxEntries
    /\ hcall = NoCall
    /\ qcall = NoCall
    /\ qout = NoCall

\* handle_call_tool runs analyze_data(db=db, **arguments)
CallAnalyze(args) ==
    /\ acall' = args
    /\ aout' = analyze_data(adb, args)
    /\ adb' = StoreAfter(adb, args.table_name)

\* a client calls the analyze_data tool
AnalyzeData ==
    /\ "none" \in DOMAIN acall
    /\ \E args \in AnalyzeArgs : CallAnalyze(args)
    /\ UNCHANGED <<db, call, outcome, sevIn, sevOut, ai, history,
                 max_entries, hcall, qcall, qout>>

\* the dispatcher hands the profile to the client and is ready for the next call
ReturnAnalyzeResponse ==
    /\ "none" \notin DOMAIN acall
    /\ acall' = NoCall
    /\ aout' = NoCall
    /\ UNCHANGED <<adb, db, call, outcome, sevIn, sevOut, ai, history,
                 max_entries, hcall, qcall, qout>>

NextAnalyze == AnalyzeData \/ ReturnAnalyzeResponse

SpecAnalyze == InitAnalyze /\ [][NextAnalyze]_vars

-----------------------------------------------------------------------------
(* The specification of the server: both tools, called in any order *)

ServerTables == {t \in BulkTables : Len(t) = 4} \cup {t \in FreeTables : Len(t) = 0}

ServerATables ==
    {MkATable(m, [profit |-> "mirror", category |-> "alternate", dates |-> "asc"]) :
        m \in [1..2 -> {Cell(0), Cell(1)}]}

ServerTableNames == {"sales", StackedDelete}

ServerDetectArgs ==
    [table_name : ServerTableNames, metric_column : {"revenue"},
     date_column : {"transaction_date"}, method : {"zscore", "iqr"},
     threshold : {Omitted, <<1, 1>>}, explain : {FALSE}]

ServerAnalyzeArgs ==
    [table_name : ServerTableNames, columns : {<<>>, <<"revenue">>},
     group_by : {"", "category"}]

\* an entry of the query-history log, as query_database calls leave it
LoggedQuery ==
    [id |-> 1, query |-> "SELECT 1", query_type |-> "sql", result_count |-> 1,
     success |-> TRUE]

\* the server starts on a store that holds the two tables; earlier
\* query_database calls may have left an entry in the query-history log
InitServer ==
    /\ db \in {[sales |-> t] : t \in ServerTables}
    /\ adb \in {[sales |-> t] : t \in ServerATables}
    /\ history \in {<<>>, <<LoggedQuery>>}
    /\ max_entries = DefaultMaxEntries
    /\ hcall = NoCall
    /\ qcall = NoCall
    /\ qout = NoCall
    /\ ai = NoClient
    /\ call = NoCall
    /\ outcome = NoCall
    /\ acall = NoCall
    /\ aout = NoCall
    /\ sevIn = NoCall
    /\ sevOut = "none"

\* a client calls detect_anomalies, whatever else is in flight; only
\* query_database calls are recorded in the query history
ServerDetectAnomalies ==
    /\ "none" \in DOMAIN call
    /\ \E args \in ServerDetectArgs, tie \in Ties : CallDetect(args, tie, NoScript)
    /\ UNCHANGED <<sevIn, sevOut, adb, acall, aout, history,
                 max_entries, hcall, qcall, qout>>

\* a client calls analyze_data, whatever else is in flight
ServerAnalyzeData ==
    /\ "none" \in DOMAIN acall
    /\ \E args \in ServerAnalyzeArgs : CallAnalyze(args)
    /\ UNCHANGED <<db, call, outcome, sevIn, sevOut, ai, history,
                 max_entries, hcall, qcall, qout>>

NextServer ==
    \/ ServerDetectAnomalies
    \/ ReturnDetectResponse
    \/ ServerAnalyzeData
    \/ ReturnAnalyzeResponse

SpecServer == InitServer /\ [][NextServer]_vars

-----------------------------------------------------------------------------
(* Query tool: query_database *)

\* a text is the sequence of its characters
LowerCase ==
    <<"a", "b", "c", "d", "e", "f", "g", "h", "i", "j", "k", "l", "m",
      "n", "o", "p", "q", "r", "s", "t", "u", "v", "w", "x", "y", "z">>

UpperCase ==
    <<"A", "B", "C", "D", "E", "F", "G", "H", "I", "J", "K", "L", "M",
      "N", "O", "P", "Q", "R", "S", "T", "U", "V", "W", "X", "Y", "Z">>

DigitChars == <<"0", "1", "2", "3", "4", "5", "6", "7", "8", "9">>

\* str.upper
upper(text) ==
    [i \in DOMAIN text |->
        IF \E k \in DOMAIN LowerCase : LowerCase[k] = text[i]
        THEN UpperCase[CHOOSE k \in DOMAIN LowerCase : LowerCase[k] = text[i]]
        ELSE text[i]]

RECURSIVE lstrip(_)
lstrip(text) ==
    IF text # <<>> /\ Head(text) = " " THEN lstrip(Tail(text)) ELSE text

RECURSIVE rstrip(_, _)
\* str.rstrip(chars)
rstrip(text, chars) ==
    IF text # <<>> /\ text[Len(text)] \in chars
    THEN rstrip(SubSeq(text, 1, Len(text) - 1), chars)
    ELSE text

\* str.strip
strip(text) == rstrip(lstrip(text), {" "})

\* str.startswith
startswith(text, prefix) ==
    Len(text) >= Len(prefix) /\ SubSeq(text, 1, Len(prefix)) = prefix

\* sub in text
contains(text, sub) ==
    \E i \in 1..(Len(text) - Len(sub) + 1) : SubSeq(text, i, i + Len(sub) - 1) = sub

RECURSIVE split_from(_, _, _)
split_from(text, word, words) ==
    LET closed == IF word = <<>> THEN words ELSE Append(words, word)
    IN  IF text = <<>> THEN closed
        ELSE IF Head(text) = " " THEN split_from(Tail(text), <<>>, closed)
        ELSE split_from(Tail(text), Append(word, Head(text)), words)

\* str.split(): the words between the blanks
split(text) == split_from(text, <<>>, <<>>)

RECURSIVE str_int(_)
\* str(n) of an integer
str_int(n) ==
    IF n < 0 THEN <<"-">> \o str_int(0 - n)
    ELSE IF n < 10 THEN <<DigitChars[n + 1]>>
    ELSE str_int(n \div 10) \o <<DigitChars[(n % 10) + 1]>>

\* the words of the SQL texts, in upper case
Word ==
    [select |-> <<"S", "E", "L", "E", "C", "T">>,
     from |-> <<"F", "R", "O", "M">>,
     limit |-> <<"L", "I", "M", "I", "T">>,
     as |-> <<"A", "S">>,
     show |-> <<"S", "H", "O", "W">>,
     tables |-> <<"T", "A", "B", "L", "E", "S">>,
     sales |-> <<"S", "A", "L", "E", "S">>,
     revenue |-> <<"R", "E", "V", "E", "N", "U", "E">>]

\* the first words _detect_query_type takes for SQL
sql_keywords ==
    {Word.select, Word.show,
     <<"I", "N", "S", "E", "R", "T">>, <<"U", "P", "D", "A", "T", "E">>,
     <<"D", "E", "L", "E", "T", "E">>, <<"C", "R", "E", "A", "T", "E">>,
     <<"D", "R", "O", "P">>, <<"A", "L", "T", "E", "R">>, <<"W", "I", "T", "H">>,
     <<"D", "E", "S", "C", "R", "I", "B", "E">>}

\* _detect_query_type
_detect_query_type(query) ==
    LET first_word == IF strip(query) # <<>> THEN upper(split(strip(query))[1]) ELSE <<>>
    IN  IF first_word \in sql_keywords THEN "sql" ELSE "natural_language"

\* the text query_database hands to the engine: " LIMIT {limit}" is put
\* after a SELECT in whose upper-cased text the letters LIMIT do not occur
with_limit(sql, limit) ==
    LET sql_upper == upper(strip(sql))
    IN  IF ~contains(sql_upper, Word.limit) /\ startswith(sql_upper, Word.select)
        THEN rstrip(sql, {";"}) \o <<" ">> \o Word.limit \o <<" ">> \o str_int(limit)
        ELSE sql

\* the query texts a client sends
QueryText ==
    [
    \* SELECT * FROM sales: the query of test_sql_with_limit
     all |->
       <<"S", "E", "L", "E", "C", "T", " ", "*", " ", "F", "R", "O", "M", " ",
       "s", "a", "l", "e", "s">>,
    \* select * from sales;: the same in lower case, closed by a semicolon
     lower |->
       <<"s", "e", "l", "e", "c", "t", " ", "*", " ", "f", "r", "o", "m", " ",
       "s", "a", "l", "e", "s", ";">>,
    \* SELECT * FROM sales LIMIT 2: a query with a LIMIT clause of its own
     limited |->
       <<"S", "E", "L", "E", "C", "T", " ", "*", " ", "F", "R", "O", "M", " ",
       "s", "a", "l", "e", "s", " ", "L", "I", "M", "I", "T", " ", "2">>,
    \* SELECT revenue AS no_limit FROM sales: no LIMIT clause, but a column alias that holds the letters
     aliased |->
       <<"S", "E", "L", "E", "C", "T", " ", "r", "e", "v", "e", "n", "u", "e",
       " ", "A", "S", " ", "n", "o", "_", "l", "i", "m", "i", "t", " ", "F",
       "R", "O", "M", " ", "s", "a", "l", "e", "s">>,
    \* SELECT * FROM sales -- all: no LIMIT clause, and a trailing line comment
     commented |->
       <<"S", "E", "L", "E", "C", "T", " ", "*", " ", "F", "R", "O", "M", " ",
       "s", "a", "l", "e", "s", " ", "-", "-", " ", "a", "l", "l">>,
    \* SELECT * FROM sales; : closed by a semicolon and a blank
     spaced |->
       <<"S", "E", "L", "E", "C", "T", " ", "*", " ", "F", "R", "O", "M", " ",
       "s", "a", "l", "e", "s", ";", " ">>,
    \* SELECT * FROM fake_table: a table the store does not hold
     missing |->
       <<"S", "E", "L", "E", "C", "T", " ", "*", " ", "F", "R", "O", "M", " ",
       "f", "a", "k", "e", "_", "t", "a", "b", "l", "e">>,
    \* SHOW TABLES: a statement that is not a SELECT
     show |->
       <<"S", "H", "O", "W", " ", "T", "A", "B", "L", "E", "S">>,
    \* top revenue: a question in natural language
     question |->
       <<"t", "o", "p", " ", "r", "e", "v", "e", "n", "u", "e">>]

\* the engine: a line comment runs from "--" to the end of the text
uncomment(text) ==
    IF \E i \in 1..(Len(text) - 1) : text[i] = "-" /\ text[i + 1] = "-"
    THEN SubSeq(text, 1,
                (CHOOSE i \in 1..(Len(text) - 1) :
                    /\ text[i] = "-" /\ text[i + 1] = "-"
                    /\ \A j \in 1..(i - 1) : ~(text[j] = "-" /\ text[j + 1] = "-")) - 1)
    ELSE text

RECURSIVE sql_tokens_from(_, _, _)
sql_tokens_from(text, word, words) ==
    LET closed == IF word = <<>> THEN words ELSE Append(words, word)
    IN  IF text = <<>> THEN closed
        ELSE IF Head(text) = " " THEN sql_tokens_from(Tail(text), <<>>, closed)
        ELSE IF Head(text) = ";"
        THEN sql_tokens_from(Tail(text), <<>>, Append(closed, <<";">>))
        ELSE sql_tokens_from(Tail(text), Append(word, Head(text)), words)

\* the engine's tokens: words, and each semicolon on its own
sql_tokens(text) == sql_tokens_from(uncomment(text), <<>>, <<>>)

RECURSIVE sql_statements_from(_, _, _)
sql_statements_from(tokens, st, sts) ==
    LET closed == IF st = <<>> THEN sts ELSE Append(sts, st)
    IN  IF tokens = <<>> THEN closed
        ELSE IF Head(tokens) = <<";">> THEN sql_statements_from(Tail(tokens), <<>>, closed)
        ELSE sql_statements_from(Tail(tokens), Append(st, Head(tokens)), sts)

\* the statements of a text: the token runs between the semicolons
sql_statements(text) == sql_statements_from(sql_tokens(text), <<>>, <<>>)

IsNumber(tok) ==
    tok # <<>> /\ \A i \in DOMAIN tok : \E d \in DOMAIN DigitChars : DigitChars[d] = tok[i]

RECURSIVE int_of(_)
int_of(tok) ==
    IF tok = <<>> THEN 0
    ELSE 10 * int_of(SubSeq(tok, 1, Len(tok) - 1))
         + (CHOOSE d \in DOMAIN DigitChars : DigitChars[d] = tok[Len(tok)]) - 1

NoLimit == -1

\* the engine's reading of one statement: SELECT <* | column [AS alias]>
\* FROM <table> [LIMIT n], or SHOW TABLES; anything else is a syntax error
parse_statement(st) ==
    LET up == [i \in DOMAIN st |-> upper(st[i])]
        froms == {i \in DOMAIN st : up[i] = Word.from}
    IN  IF up = <<Word.show, Word.tables>> THEN [kind |-> "show"]
        ELSE IF up[1] # Word.select \/ froms = {} THEN [kind |-> "syntax"]
        ELSE
        LET f == CHOOSE i \in froms : \A j \in froms : i <= j
            proj == SubSeq(up, 2, f - 1)
            tail == SubSeq(up, f + 2, Len(up))
            projOk == \/ proj = <<<<"*">>>>
                      \/ Len(proj) = 1 /\ proj[1] \notin {Word.as, Word.limit}
                      \/ Len(proj) = 3 /\ proj[2] = Word.as
            tailOk == \/ tail = <<>>
                      \/ Len(tail) = 2 /\ tail[1] = Word.limit /\ IsNumber(tail[2])
        IN  IF Len(up) < f + 1 \/ ~projOk \/ ~tailOk THEN [kind |-> "syntax"]
            ELSE [kind |-> "select",
                  table |-> up[f + 1],
                  column |-> proj[1],
                  limit |-> IF tail = <<>> THEN NoLimit ELSE int_of(tail[2])]

\* what the engine answers to one parsed statement
run_statement(store, st) ==
    IF st.kind = "show"
    THEN [columns |-> <<"name">>, rows |-> <<<<"sales">>>>]
    ELSE IF st.table # Word.sales \/ "sales" \notin DOMAIN store
    THEN [error |-> "Catalog Error: Table does not exist", type |-> "CatalogException"]
    ELSE IF st.column \notin {<<"*">>, Word.revenue}
    THEN [error |-> "Binder Error: column not found", type |-> "BinderException"]
    ELSE
    LET t == store.sales
        n == IF st.limit = NoLimit \/ st.limit > Len(t) THEN Len(t) ELSE st.limit
        cols == IF st.column = <<"*">> THEN TableColumns ELSE <<"revenue">>
    IN  [columns |-> cols,
         rows |-> [i \in 1..n |-> [k \in DOMAIN cols |-> t[i][cols[k]]]]]

\* DuckDBConnector.execute_query: the engine parses the whole text first; it
\* then runs the statements and the rows of the last one are fetched; an
\* exception becomes an error mapping
execute_query(store, sql) ==
    LET sts == sql_statements(sql)
        parsed == [i \in DOMAIN sts |-> parse_statement(sts[i])]
    IN  IF sts = <<>> \/ \E i \in DOMAIN parsed : parsed[i].kind = "syntax"
        THEN [error |-> "Parser Error: syntax error", type |-> "ParserException",
              execution_time_ms |-> "elapsed", suggestion |-> "syntax"]
        ELSE LET ran == [i \in DOMAIN parsed |-> run_statement(store, parsed[i])]
             IN  IF \E i \in DOMAIN ran : "error" \in DOMAIN ran[i]
                 THEN LET i == CHOOSE k \in DOMAIN ran :
                                  /\ "error" \in DOMAIN ran[k]
                                  /\ \A j \in 1..(k - 1) : "error" \notin DOMAIN ran[j]
                      IN  [error |-> ran[i].error, type |-> ran[i].type,
                           execution_time_ms |-> "elapsed", suggestion |-> "table"]
                 ELSE [columns |-> ran[Len(ran)].columns,
                       rows |-> ran[Len(ran)].rows,
                       row_count |-> Len(ran[Len(ran)].rows),
                       execution_time_ms |-> "elapsed"]

\* query_database(query, query_type, limit) on a server without an AI client
query_database(store, args) ==
    LET query_type == IF args.query_type = "auto"
                      THEN _detect_query_type(args.query)
                      ELSE args.query_type
    IN  IF query_type = "natural_language"
        THEN [error |-> "AI client required for natural language queries. Set ANTHROPIC_API_KEY."]
        ELSE LET sql == with_limit(args.query, args.limit)
                 result == execute_query(store, sql)
             IN  IF "error" \in DOMAIN result
                 THEN result
                 ELSE [columns |-> result.columns, rows |-> result.rows,
                       row_count |-> result.row_count,
                       execution_time_ms |-> result.execution_time_ms]

-----------------------------------------------------------------------------
(* The specification of the query tool *)

Queries == {QueryText[k] : k \in DOMAIN QueryText}

QueryArgs ==
    [query : Queries, query_type : {"sql", "auto", "natural_language"},
     limit : 0..MaxRows]

MaxLogged == 1

\* sales tables of 0 to MaxRows + 1 rows, so that a limit can fall short of
\* the table
QueryTables ==
    {MkTable([i \in 1..n |-> Cell(i % (MaxVal + 1))], "asc") : n \in 0..(MaxRows + 1)}

None == "None"

\* the server starts on a store that holds some sales table, without an AI
\* client and with an empty query-history log
InitQuery ==
    /\ db \in {[sales |-> t] : t \in QueryTables}
    /\ ai = NoClient
    /\ history = <<>>
    /\ max_entries = DefaultMaxEntries
    /\ hcall = NoCall
    /\ qcall = NoCall
    /\ qout = NoCall
    /\ call = NoCall
    /\ outcome = NoCall
    /\ sevIn = NoCall
    /\ sevOut = "none"
    /\ adb = [sales |-> <<>>]
    /\ acall = NoCall
    /\ aout = NoCall

\* handle_call_tool runs query_database(db=db, ai=ai, **arguments) and
\* records the call in the query history
QueryDatabase ==
    /\ "none" \in DOMAIN qcall
    /\ Len(history) < MaxLogged
    /\ \E args \in QueryArgs :
          /\ qcall' = args
          /\ qout' = query_database(db, args)
          /\ history' = record(history, max_entries, args.query, args.query_type,
                               IF "row_count" \in DOMAIN qout' THEN qout'.row_count ELSE 0,
                               "error" \notin DOMAIN qout',
                               IF "error" \in DOMAIN qout' THEN qout'.error ELSE None,
                               None)
    /\ UNCHANGED <<db, call, outcome, sevIn, sevOut, adb, acall, aout, ai,
                   max_entries, hcall>>

\* the dispatcher hands the result to the client and is ready for the next call
ReturnQueryResponse ==
    /\ "none" \notin DOMAIN qcall
    /\ qcall' = NoCall
    /\ qout' = NoCall
    /\ UNCHANGED <<db, call, outcome, sevIn, sevOut, adb, acall, aout, ai,
                   history, max_entries, hcall>>

NextQuery == QueryDatabase \/ ReturnQueryResponse

SpecQuery == InitQuery /\ [][NextQuery]_vars

-----------------------------------------------------------------------------
(* The specification of the query history *)

MaxCapacity == 3

\* what a caller records: the query, its type, the row count, the outcome
RecordArgs ==
    {[query |-> "SELECT 1", query_type |-> "sql", result_count |-> 1,
      success |-> TRUE, error |-> None],
     [query |-> "SELECT 2", query_type |-> "sql", result_count |-> 2,
      success |-> FALSE, error |-> "fail"]}

\* QueryHistory(max_entries): an empty log of some capacity
InitHistory ==
    /\ max_entries \in 1..MaxCapacity
    /\ history = <<>>
    /\ hcall = NoCall
    /\ db = [sales |-> <<>>]
    /\ ai = NoClient
    /\ qcall = NoCall
    /\ qout = NoCall
    /\ call = NoCall
    /\ outcome = NoCall
    /\ sevIn = NoCall
    /\ sevOut = "none"
    /\ adb = [sales |-> <<>>]
    /\ acall = NoCall
    /\ aout = NoCall

\* a caller records a query
Record ==
    /\ \E a \in RecordArgs :
          /\ history' = record(history, max_entries, a.query, a.query_type,
                               a.result_count, a.success, a.error, None)
          /\ hcall' = [op |-> "record", args |-> a]
    /\ UNCHANGED <<db, call, outcome, sevIn, sevOut, adb, acall, aout, ai,
                   max_entries, qcall, qout>>

\* a caller reads the most recent entries
GetHistory ==
    /\ \E limit \in -1..(MaxCapacity + 1) :
          hcall' = [op |-> "get_history", limit |-> limit,
                    ret |-> get_history(history, limit)]
    /\ UNCHANGED <<db, call, outcome, sevIn, sevOut, adb, acall, aout, ai,
                   history, max_entries, qcall, qout>>

\* a caller clears the log
Clear ==
    /\ history' = clear(history)
    /\ hcall' = [op |-> "clear"]
    /\ UNCHANGED <<db, call, outcome, sevIn, sevOut, adb, acall, aout, ai,
                   max_entries, qcall, qout>>

NextHistory == Record \/ GetHistory \/ Clear

SpecHistory == InitHistory /\ [][NextHistory]_vars

-----------------------------------------------------------------------------
(* Claims about the severity policy and the anomaly detector *)

Called == "none" \notin DOMAIN call

\* the call names an existing table and existing metric and date columns
ValidColumns ==
    /\ call.table_name = "sales"
    /\ call.metric_column = "revenue"
    /\ call.date_column = "transaction_date"

ValidMethod == call.method \in {"zscore", "iqr"}

\* the threshold the caller supplied: the documented default 3.0 when left out
Supplied == IF call.threshold = Omitted THEN <<3, 1>> ELSE call.threshold

HasNull == \E i \in DOMAIN db.sales : IsNull(db.sales[i].revenue)

\* the handler returned a mapping without an 'error' key
ReturnedReport == outcome.raised = "" /\ "error" \notin DOMAIN outcome.result

\* the handler got as far as computing the mask
MaskComputed == outcome.stage \in {"select", "empty", "report"}

\* the non-null metric values of the loaded frame, by row label
NonNull == {i \in DOMAIN outcome.locals.df : ~IsNull(outcome.locals.df[i].revenue)}

ValueAt(i) == outcome.locals.df[i].revenue[1]

RECURSIVE SumSet(_, _)
SumSet(S, pow) ==
    IF S = {} THEN 0
    ELSE LET i == CHOOSE x \in S : TRUE
         IN  (IF pow = 2 THEN ValueAt(i) * ValueAt(i) ELSE ValueAt(i)) + SumSet(S \ {i}, pow)

Count == Cardinality(NonNull)

\* n*(n-1) times the sample variance of the non-null values
ScaledVar == Count * SumSet(NonNull, 2) - SumSet(NonNull, 1) * SumSet(NonNull, 1)

\* |value_i - mu| / sigma > t and = t, for sigma > 0, t = Supplied
ZAbove(i) ==
    \/ Supplied[1] < 0
    \/ Sq(Count * ValueAt(i) - SumSet(NonNull, 1)) * (Count - 1) * Sq(Supplied[2])
         > Sq(Supplied[1]) * Count * ScaledVar

ZEqual(i) ==
    /\ Supplied[1] >= 0
    /\ Sq(Count * ValueAt(i) - SumSet(NonNull, 1)) * (Count - 1) * Sq(Supplied[2])
         = Sq(Supplied[1]) * Count * ScaledVar

\* C1: _classify_severity returns 'low' for std = 0; otherwise, with
\* d = |value - mean| / std, 'critical' iff d > 5, 'high' iff 4 < d <= 5,
\* 'medium' iff 3 < d <= 4 and 'low' iff d <= 3 (d = 3, 4, 5 fall in the lower band)
C1_SeverityBands ==
    sevOut # "none" =>
        LET x == Abs(sevIn.value - sevIn.mean)
            s == sevIn.std
        IN  IF s = 0 THEN sevOut = "low"
            ELSE IF s < 0 THEN sevOut = "low"
            ELSE /\ (sevOut = "critical") <=> (x > 5 * s)
                 /\ (sevOut = "high") <=> (4 * s < x /\ x <= 5 * s)
                 /\ (sevOut = "medium") <=> (3 * s < x /\ x <= 4 * s)
                 /\ (sevOut = "low") <=> (x <= 3 * s)

\* C1 witness: a deviation of exactly 4.0 standard deviations was classified
C1_Witness ==
    /\ sevOut = "medium"
    /\ sevIn.std = 2
    /\ Abs(sevIn.value - sevIn.mean) = 8

\* C2 (as claimed): with a null in the metric column the call still returns
\* a report, and no null row is flagged
C2_NullsStillReport ==
    (Called /\ ValidColumns /\ ValidMethod /\ HasNull) =>
        /\ ReturnedReport
        /\ \A i \in DOMAIN outcome.locals.mask : outcome.locals.mask[i] => i \in NonNull

\* C3: with method zscore and sigma > 0 the flagged rows are exactly the
\* non-null rows with |value - mu| / sigma > threshold (mu, sigma over all
\* non-null values, sigma the n-1 deviation); z = threshold is not flagged
C3_ZscoreFlagsExactly ==
    (Called /\ call.method = "zscore" /\ MaskComputed /\ Count >= 2 /\ ScaledVar > 0) =>
        /\ DOMAIN outcome.locals.mask = NonNull
        /\ \A i \in NonNull : outcome.locals.mask[i] <=> ZAbove(i)
        /\ \A i \in NonNull : ZEqual(i) => ~outcome.locals.mask[i]
        /\ outcome.raised = "" =>
              outcome.result.anomalies_found = Cardinality({i \in NonNull : ZAbove(i)})

\* C3 witness: a report where one row is flagged while the rows whose z-score
\* equals the threshold are not
C3_Witness ==
    /\ Called /\ call.method = "zscore" /\ outcome.stage = "report"
    /\ Count >= 2 /\ ScaledVar > 0
    /\ \E i \in NonNull : ZEqual(i) /\ ~outcome.locals.mask[i]
    /\ \E i \in NonNull : outcome.locals.mask[i]

\* four times the quartile k/4 (k = 1, 3) of the non-null values, by linear
\* interpolation between the sorted values around position k*(n-1)/4
QuartileX4(k) ==
    LET pos == k * (Count - 1)
        lo == Kth(outcome.locals.metric, (pos \div 4) + 1)
        hi == IF pos % 4 = 0 THEN lo ELSE Kth(outcome.locals.metric, (pos \div 4) + 2)
    IN  4 * lo + (pos % 4) * (hi - lo)

IqrX4 == QuartileX4(3) - QuartileX4(1)

\* value_i < Q1 - t*IQR, value_i > Q3 + t*IQR, value_i on a fence, t = Supplied
BelowLower(i) ==
    4 * Supplied[2] * ValueAt(i) < Supplied[2] * QuartileX4(1) - Supplied[1] * IqrX4

AboveUpper(i) ==
    4 * Supplied[2] * ValueAt(i) > Supplied[2] * QuartileX4(3) + Supplied[1] * IqrX4

OnFence(i) ==
    \/ 4 * Supplied[2] * ValueAt(i) = Supplied[2] * QuartileX4(1) - Supplied[1] * IqrX4
    \/ 4 * Supplied[2] * ValueAt(i) = Supplied[2] * QuartileX4(3) + Supplied[1] * IqrX4

C5_ConstantColumnNoAnomalies ==
    (/\ Called /\ ValidColumns /\ ValidMethod
     /\ \A i, j \in DOMAIN db.sales :
           (~IsNull(db.sales[i].revenue) /\ ~IsNull(db.sales[j].revenue))
              => db.sales[i].revenue = db.sales[j].revenue) =>
        /\ outcome.raised = ""
        /\ "anomalies_found" \in DOMAIN outcome.result
        /\ outcome.result.anomalies_found = 0

\* C6: with a method other than zscore or iqr the call returns a mapping
\* whose only key is 'error', and never raises, whatever the table holds
C6_UnknownMethodIsError ==
    (Called /\ call.method \notin {"zscore", "iqr"}) =>
        /\ outcome.raised = ""
        /\ DOMAIN outcome.result = {"error"}

\* C6 witness: an unknown method met on a table with a null metric and an
\* unparseable date, rejected at the method dispatch
C6_Witness ==
    /\ Called /\ call.method = "invalid" /\ ValidColumns
    /\ HasNull
    /\ \E i \in DOMAIN db.sales : ~db.sales[i].transaction_date.parses
    /\ outcome.stage = "method"
    /\ outcome.raised = ""
    /\ "error" \in DOMAIN outcome.result

\* C9 (as claimed): an unparseable or absent date column never fails the
\* detection: a report is returned and every record's date is the raw text,
\* or 'N/A' when the column is absent
C9_DateProblemStillReport ==
    (/\ Called /\ call.table_name = "sales" /\ call.metric_column = "revenue"
     /\ ValidMethod /\ ~HasNull
     /\ \/ call.date_column \notin Range(TableColumns)
        \/ \E i \in DOMAIN db.sales : ~db.sales[i].transaction_date.parses) =>
        /\ ReturnedReport
        /\ "anomalies" \in DOMAIN outcome.result =>
              \A k \in DOMAIN outcome.result.anomalies :
                  outcome.result.anomalies[k].date.str =
                      IF call.date_column \in Range(TableColumns) THEN "text" ELSE "N/A"

\* C10 (as claimed): every non-error result carries the baseline statistics
\* and the total record count, also when no row is flagged
C10_BaselineAlways ==
    (Called /\ ReturnedReport) =>
        {"baseline", "total_records"} \subseteq DOMAIN outcome.result

\* the mask was computed and selects no row
NoRowFlagged ==
    /\ MaskComputed
    /\ \A i \in DOMAIN outcome.locals.mask : ~outcome.locals.mask[i]

\* C11 (as claimed): when no row is flagged the call returns a result without
\* an 'error' key, with anomalies_found = 0 and a message, and with neither
\* the severity histogram nor the anomaly list
C11_NoFlagZeroResult ==
    (Called /\ NoRowFlagged) =>
        /\ ReturnedReport
        /\ {"anomalies_found", "message"} \subseteq DOMAIN outcome.result
        /\ outcome.result.anomalies_found = 0
        /\ outcome.result.message # ""
        /\ DOMAIN outcome.result \cap {"severity_breakdown", "anomalies"} = {}

\* the labels of the loaded frame that the mask selects
Flagged == {i \in DOMAIN outcome.locals.mask : outcome.locals.mask[i]}

\* the loaded frame holds the stored rows, each once, in ascending date order
DateAscending ==
    LET df == outcome.locals.df
    IN  /\ Len(df) = Len(db.sales)
        /\ {df[i].transaction_id : i \in DOMAIN df}
              = {db.sales[i].transaction_id : i \in DOMAIN db.sales}
        /\ \A i, j \in DOMAIN df :
              i < j => df[i].transaction_date.ord <= df[j].transaction_date.ord

\* the k-th flagged row of the loaded frame
KthFlagged(k) ==
    CHOOSE i \in Flagged : Cardinality({j \in Flagged : j < i}) = k - 1

\* C12: when F rows are flagged the report lists min(50, F) records, the
\* first min(50, F) flagged rows of the date-ascending rows in that order,
\* and anomalies_found is F, not capped at 50
C12_FirstFiftyListed ==
    (Called /\ outcome.stage = "report") =>
        LET F == Cardinality(Flagged)
            listed == outcome.result.anomalies
        IN  /\ DateAscending
            /\ outcome.result.anomalies_found = F
            /\ Len(listed) = IF F < 50 THEN F ELSE 50
            /\ \A k \in DOMAIN listed :
                  /\ listed[k].transaction_id
                        = outcome.locals.df[KthFlagged(k)].transaction_id
                  /\ listed[k].value = ValueAt(KthFlagged(k))
                  /\ listed[k].date.of
                        = outcome.locals.df[KthFlagged(k)].transaction_date.ord

\* C12 witness: more than 50 rows of a table stored newest first are flagged,
\* 50 are listed, and an unflagged row lies before a listed one
C12_Witness ==
    /\ Called /\ outcome.stage = "report"
    /\ Cardinality(Flagged) > 50
    /\ outcome.result.anomalies_found > 50
    /\ Len(outcome.result.anomalies) = 50
    /\ db.sales[1].transaction_date.ord > db.sales[2].transaction_date.ord
    /\ \E i \in DOMAIN outcome.locals.df :
          i \notin Flagged /\ i < KthFlagged(50)

\* C13: the severity histogram of a report has keys among low, medium, high
\* and critical, every count is positive, the counts sum to anomalies_found
\* (the number of flagged rows, also beyond the 50 listed ones), and the
\* listed records of a severity never outnumber its count
C13_SeverityCoversAllFlagged ==
    (Called /\ outcome.stage = "report") =>
        LET hist == outcome.result.severity_breakdown
            listed == outcome.result.anomalies
        IN  /\ DOMAIN hist \subseteq {"low", "medium", "high", "critical"}
            /\ \A l \in DOMAIN hist : hist[l] > 0
            /\ SumOver(hist, DOMAIN hist) = outcome.result.anomalies_found
            /\ SumOver(hist, DOMAIN hist) = Cardinality(Flagged)
            /\ \A k \in DOMAIN listed :
                  /\ listed[k].severity \in DOMAIN hist
                  /\ Cardinality({j \in DOMAIN listed :
                                    listed[j].severity = listed[k].severity})
                        <= hist[listed[k].severity]

\* C13 witness: a report that lists 50 records while its histogram counts
\* more than 50 flagged rows
C13_Witness ==
    /\ Called /\ outcome.stage = "report"
    /\ Len(outcome.result.anomalies) = 50
    /\ SumOver(outcome.result.severity_breakdown,
               DOMAIN outcome.result.severity_breakdown) > 50
    /\ "low" \in DOMAIN outcome.result.severity_breakdown

\* a mapping without its 'ai_explanation' entry
WithoutExplanation(result) ==
    [k \in DOMAIN result \ {"ai_explanation"} |-> result[k]]

\* what the same arguments give with explain = false and no AI client, under
\* the engine's row order t
PlainOutcome(t) ==
    detect_anomalies(db, [call EXCEPT !.explain = FALSE],
                     [tie |-> t, ai |-> NoClient, script |-> NoScript])

\* C14: the call's result equals the result of the same call with
\* explain = false in every field but an added 'ai_explanation'; an AI error
\* result or a missing AI client leaves the report as it is, never an error;
\* the explanation is requested at most once, and only by an explain call
\* whose report lists at least one anomaly record
C14_ReportIndependentOfAI ==
    Called =>
        /\ \E t \in Ties :
              /\ PlainOutcome(t).raised = outcome.raised
              /\ PlainOutcome(t).stage = outcome.stage
              /\ PlainOutcome(t).locals = outcome.locals
              /\ outcome.raised = "" =>
                    WithoutExplanation(outcome.result) = PlainOutcome(t).result
        /\ Len(outcome.asked) <= 1
        /\ outcome.asked # <<>> =>
              /\ call.explain
              /\ outcome.stage = "report"
              /\ Len(outcome.result.anomalies) >= 1
              /\ "error" \notin DOMAIN outcome.result
              /\ ("ai_explanation" \in DOMAIN outcome.result)
                    <=> ("error" \notin DOMAIN outcome.asked[1].result)
        /\ (outcome.asked = <<>> /\ outcome.raised = "") =>
              "ai_explanation" \notin DOMAIN outcome.result

\* C14 witness: an explain call whose explanation request ended in an AI
\* error result after the rate-limit retries, and that returned the report
C14_Witness ==
    /\ Called /\ call.explain /\ outcome.stage = "report"
    /\ Len(outcome.asked) = 1
    /\ "error" \in DOMAIN outcome.asked[1].result
    /\ outcome.asked[1].result.type = "RateLimitError"
    /\ outcome.result.anomalies_found >= 1
    /\ "ai_explanation" \notin DOMAIN outcome.result

\* the replies with which the API turns a request down
ApiFailures == {"rate_limit", "api_error"}

\* the last call asked the AI client for an explanation
Explained == Called /\ outcome.asked # <<>>

\* C21 (as claimed): a failing AI request, a rate-limit failure or another
\* API failure alike, is retried by the client with waits that double, at most
\* MAX_RETRIES times, after which an error result is returned; detect_anomalies
\* asks for the explanation at most once
C21_EveryFailureRetried ==
    Explained =>
        LET a == outcome.asked[1]
        IN  /\ Len(outcome.asked) = 1
            /\ Len(a.replies) <= MAX_RETRIES + 1
            /\ \A i \in 1..Len(a.replies) :
                   a.replies[i] \in ApiFailures =>
                       IF i <= MAX_RETRIES
                       THEN /\ Len(a.replies) > i
                            /\ a.sleeps[i] = BackoffSeconds * Pow2(i - 1)
                       ELSE "error" \in DOMAIN a.result

\* C21 (amended): a rate-limit failure is retried by the client, the k-th retry
\* after a wait of 30 * 2^(k-1) seconds, at most MAX_RETRIES times, after
\* which a RateLimitError result is returned; any other API failure is
\* returned as an APIError result at once, without a retry; detect_anomalies
\* asks for the explanation at most once and returns its report either way
C21_RateLimitRetried ==
    Explained =>
        LET a == outcome.asked[1]
            n == Len(a.replies)
        IN  /\ Len(outcome.asked) = 1
            /\ a.requests = n
            /\ n \in 1..(MAX_RETRIES + 1)
            /\ Len(a.sleeps) = n - 1
            /\ \A i \in 1..(n - 1) :
                   /\ a.replies[i] = "rate_limit"
                   /\ a.sleeps[i] = BackoffSeconds * Pow2(i - 1)
                   /\ i > 1 => a.sleeps[i] = 2 * a.sleeps[i - 1]
            /\ a.replies[n] = "api_error" =>
                   /\ "error" \in DOMAIN a.result
                   /\ a.result.type = "APIError"
            /\ a.replies[n] = "rate_limit" =>
                   /\ n = MAX_RETRIES + 1
                   /\ "error" \in DOMAIN a.result
                   /\ a.result.type = "RateLimitError"
            /\ a.replies[n] \in ApiTexts => "error" \notin DOMAIN a.result
            /\ outcome.raised = "" /\ outcome.stage = "report"
            /\ a.replies[n] \in ApiFailures =>
                   "ai_explanation" \notin DOMAIN outcome.result

\* C21 witness: an explanation request that was rate limited twice, retried
\* after 30 and after 60 seconds, and then met another API failure
C21_Witness ==
    /\ Explained
    /\ outcome.asked[1].replies = <<"rate_limit", "rate_limit", "api_error">>
    /\ outcome.asked[1].sleeps = <<30, 60>>
    /\ outcome.asked[1].result.type = "APIError"
    /\ outcome.stage = "report"

\* the waits of a call that was rate limited on its first k requests
BackoffWaits(k) == [i \in 1..k |-> BackoffSeconds * Pow2(i - 1)]

\* C27: analyze ends after at most 4 requests (the first and MAX_RETRIES = 3
\* retries); rate limited on every request it sleeps 30, 60 and 120 seconds
\* before the 1st, 2nd and 3rd retry and returns a 'RateLimitError' result
\* after the 4th failure without another sleep; an answer at any attempt is
\* returned as the response and ends the retries
C27_AnalyzeTerminates ==
    Explained =>
        LET a == outcome.asked[1]
            failed == {i \in DOMAIN a.replies : a.replies[i] = "rate_limit"}
        IN  /\ a.requests <= MAX_RETRIES + 1
            /\ a.requests = Len(a.replies)
            /\ failed = DOMAIN a.replies =>
                   /\ a.requests = 4
                   /\ a.sleeps = <<30, 60, 120>>
                   /\ a.result.type = "RateLimitError"
                   /\ "response" \notin DOMAIN a.result
                   /\ ai.request_count = a.client.request_count
            /\ a.replies[Len(a.replies)] \in ApiTexts =>
                   /\ failed = 1..(a.requests - 1)
                   /\ a.sleeps = BackoffWaits(a.requests - 1)
                   /\ a.result.response = a.replies[Len(a.replies)]
                   /\ "error" \notin DOMAIN a.result
                   /\ ai.request_count >= 1

\* C27 witness: a call that was rate limited four times gave up with a
\* 'RateLimitError' result after sleeping 30, 60 and 120 seconds
C27_Witness ==
    /\ Explained
    /\ outcome.asked[1].replies = <<"rate_limit", "rate_limit", "rate_limit", "rate_limit">>
    /\ outcome.asked[1].sleeps = <<30, 60, 120>>
    /\ outcome.asked[1].result.type = "RateLimitError"

\* C29: whenever the mask flags a row the frame has at least one row and
\* the sample standard deviation of the non-null metric is defined (at least
\* 2 values) and strictly positive, so that the anomaly rate and the
\* deviations divide by non-zero numbers and no std = 0 branch is taken; a
\* table with zero rows yields the zero-anomaly result
C29_NoDivisionByZero ==
    Called =>
        /\ (MaskComputed /\ Flagged # {}) =>
              /\ Len(outcome.locals.df) >= 1
              /\ Count >= 2
              /\ ScaledVar > 0
              /\ ~SeriesStd(outcome.locals.metric).nan
              /\ SeriesStd(outcome.locals.metric).sgn = 1
        /\ outcome.stage = "report" =>
              /\ outcome.result.total_records >= 1
              /\ ~outcome.result.anomaly_rate_pct.nan
              /\ outcome.result.anomaly_rate_pct.n > 0
              /\ \A k \in DOMAIN outcome.result.anomalies :
                    ~outcome.result.anomalies[k].deviation.nan
        /\ (ValidColumns /\ ValidMethod /\ Len(db.sales) = 0) =>
              /\ outcome.stage = "empty"
              /\ ReturnedReport
              /\ outcome.result.anomalies_found = 0

\* C29 witness: the iqr method flagged a row of a column whose quartiles
\* coincide (interquartile range 0), and the report was returned
C29_Witness ==
    /\ Called /\ call.method = "iqr" /\ outcome.stage = "report"
    /\ Flagged # {}
    /\ SeriesQuantile(outcome.locals.metric, 1, 4)
          = SeriesQuantile(outcome.locals.metric, 3, 4)
    /\ ScaledVar > 0

\* the threshold is at least k
ThresholdAtLeast(k) == Supplied[1] >= k * Supplied[2]

\* the severities of the flagged rows: those of the histogram and of the list
FlaggedSeverities ==
    DOMAIN outcome.result.severity_breakdown
    \cup {outcome.result.anomalies[k].severity : k \in DOMAIN outcome.result.anomalies}

\* C30: with method 'zscore' and a threshold >= 3 no flagged row is 'low',
\* with a threshold >= 4 every flagged row is 'high' or 'critical', with a
\* threshold >= 5 every flagged row is 'critical'; a 'low' row is flagged
\* only with a zscore threshold below 3 or with the iqr method
C30_SeverityMatchesThreshold ==
    (Called /\ outcome.stage = "report") =>
        /\ call.method = "zscore" =>
              /\ ThresholdAtLeast(3) => "low" \notin FlaggedSeverities
              /\ ThresholdAtLeast(4) => FlaggedSeverities \subseteq {"high", "critical"}
              /\ ThresholdAtLeast(5) => FlaggedSeverities \subseteq {"critical"}
        /\ "low" \in FlaggedSeverities =>
              \/ call.method = "iqr"
              \/ call.method = "zscore" /\ ~ThresholdAtLeast(3)

\* C30 witness: a zscore call with threshold 5 flagged a row that lies below
\* the rest, and the row is 'critical'
C30_Witness ==
    /\ Called /\ outcome.stage = "report"
    /\ call.method = "zscore" /\ call.threshold = <<5, 1>>
    /\ outcome.result.anomalies_found >= 1
    /\ outcome.result.anomalies[1].value = 0
    /\ outcome.result.anomalies[1].severity = "critical"
    /\ DOMAIN outcome.result.severity_breakdown = {"critical"}

-----------------------------------------------------------------------------
(* Claims about the dataset profiler *)

ACalled == "none" \notin DOMAIN acall

\* the requested names that the table lacks
Absent == {c \in Range(acall.columns) : c \notin Range(AColumns)}

\* the place of a name in the request
RequestIndex(c) == CHOOSE i \in DOMAIN acall.columns : acall.columns[i] = c

\* an error result whose message lists exactly the absent names, in request
\* order, and nothing else
NamesExactlyAbsent ==
    /\ DOMAIN aout = {"error"}
    /\ aout.error[1] = "Columns not found: "
    /\ LET names == Tail(aout.error)
       IN  /\ Range(names) = Absent
           /\ Len(names) = Cardinality(Absent)
           /\ \A i, j \in DOMAIN names :
                 i < j => RequestIndex(names[i]) < RequestIndex(names[j])

\* C7 (as claimed): a request that names an absent column returns an error
\* that names exactly the absent columns, and no profile section
C7_MissingColumnsNamed ==
    (ACalled /\ acall.table_name = "sales" /\ Absent # {}) => NamesExactlyAbsent

\* C7 (amended): on a table that holds at least one row, a request that names
\* an absent column returns an error that names exactly the absent columns,
\* in request order, and no profile section
C7_MissingColumnsNamedNonEmpty ==
    (/\ ACalled /\ acall.table_name = "sales" /\ Absent # {}
     /\ Len(adb.sales) > 0) => NamesExactlyAbsent

\* C7 witness: two absent names were requested of a table with rows and the
\* error lists both
C7_Witness ==
    /\ ACalled /\ acall.table_name = "sales" /\ Len(adb.sales) > 0
    /\ acall.columns = <<"nonexistent", "bogus">>
    /\ aout = [error |-> <<"Columns not found: ", "nonexistent", "bogus">>]

\* the columns a profile names outside its data-quality and trend sections
NamedInSummaries ==
    Range(aout.columns_analyzed)
    \cup (IF "numeric_summary" \in DOMAIN aout THEN DOMAIN aout.numeric_summary ELSE {})
    \cup (IF "categorical_summary" \in DOMAIN aout
          THEN DOMAIN aout.categorical_summary ELSE {})
    \cup (IF "top_correlations" \in DOMAIN aout
          THEN UNION {{aout.top_correlations[k].col_a, aout.top_correlations[k].col_b} :
                         k \in DOMAIN aout.top_correlations}
          ELSE {})

\* C8 (as claimed): with `columns` given, every part of the profile is
\* computed from the selected columns only: the summaries, the data-quality
\* null counts and percentage, the column count and the trend's columns
C8_OnlySelectedColumns ==
    (ACalled /\ acall.columns # <<>> /\ "error" \notin DOMAIN aout) =>
        /\ NamedInSummaries \subseteq Range(acall.columns)
        /\ DOMAIN aout.data_quality.null_counts \subseteq Range(acall.columns)
        /\ aout.data_quality.null_percentage
              = data_quality(adb.sales, acall.columns).null_percentage
        /\ aout.total_columns = Len(acall.columns)
        /\ "trend" \in DOMAIN aout =>
              {aout.trend.date_column, aout.trend.metric} \subseteq Range(acall.columns)

\* the call returned a profile, not an error
Profiled == ACalled /\ "error" \notin DOMAIN aout

\* the columns the call analyzes, in their order, and the numeric ones
Analyzed == IF acall.columns = <<>> THEN AColumns ELSE acall.columns

PlaceOf(c) == CHOOSE i \in DOMAIN Analyzed : Analyzed[i] = c

NumericAnalyzed == {c \in Range(Analyzed) : ColumnDtype[c] \in {"float64", "int64"}}

\* the pairs of analyzed numeric columns whose rounded coefficient passes 0.3
PassingPairs ==
    {q \in NumericAnalyzed \X NumericAnalyzed :
        /\ PlaceOf(q[1]) < PlaceOf(q[2])
        /\ AbsAboveCorrThreshold(corr(adb.sales, q[1], q[2]))}

\* C15: the correlation list holds only pairs of two different numeric
\* columns, the first before the second in column order, no pair twice,
\* every value with 0.3 < |r| <= 1, in non-increasing |r|, at most 10
\* entries; the list exists only with at least 2 numeric columns
C15_CorrelationList ==
    Profiled =>
        /\ "top_correlations" \in DOMAIN aout => Cardinality(NumericAnalyzed) >= 2
        /\ "top_correlations" \in DOMAIN aout =>
              LET list == aout.top_correlations
              IN  /\ Len(list) <= 10
                  /\ \A k \in DOMAIN list :
                        /\ {list[k].col_a, list[k].col_b} \subseteq NumericAnalyzed
                        /\ list[k].col_a # list[k].col_b
                        /\ PlaceOf(list[k].col_a) < PlaceOf(list[k].col_b)
                        /\ ~list[k].correlation.nan
                        /\ Abs(list[k].correlation.n) * 10 > 3 * list[k].correlation.d
                        /\ Abs(list[k].correlation.n) <= list[k].correlation.d
                  /\ \A k, l \in DOMAIN list :
                        k < l =>
                          /\ {list[k].col_a, list[k].col_b} # {list[l].col_a, list[l].col_b}
                          /\ Abs(list[k].correlation.n) * list[l].correlation.d
                                >= Abs(list[l].correlation.n) * list[k].correlation.d

\* C15 witness: more than 10 pairs pass the filter, the list holds 10, and
\* its first and last values differ in size
C15_Witness ==
    /\ Profiled /\ "top_correlations" \in DOMAIN aout
    /\ Cardinality(PassingPairs) > 10
    /\ Len(aout.top_correlations) = 10
    /\ Abs(aout.top_correlations[1].correlation.n)
          > Abs(aout.top_correlations[10].correlation.n)

\* the analyzed numeric columns other than the group column, and the first
\* 3 of them in the order of the analyzed columns
GroupCandidates == NumericAnalyzed \ {acall.group_by}

ExpectedTargets ==
    {c \in GroupCandidates :
        Cardinality({d \in GroupCandidates : PlaceOf(d) < PlaceOf(c)}) < 3}

\* the non-null keys of the group column, and the 20 smallest of them
GroupKeys ==
    {adb.sales[i][acall.group_by] :
        i \in {j \in DOMAIN adb.sales : ~CellIsNull(adb.sales[j], acall.group_by)}}

ExpectedGroups ==
    {k \in GroupKeys :
        Cardinality({w \in GroupKeys :
                        KeyOrd(acall.group_by, w) < KeyOrd(acall.group_by, k)}) < 20}

\* the rows of group k with a value in column c
GroupRows(k, c) ==
    {i \in DOMAIN adb.sales :
        adb.sales[i][acall.group_by] = k /\ ~IsNull(adb.sales[i][c])}

\* C16: the grouped analysis is present exactly when group_by names a column
\* of the table and an analyzed numeric column other than it exists (an
\* invalid group_by is no error); it aggregates mean, sum and count of the
\* first 3 such columns and lists the first 20 groups in ascending key order
C16_GroupedAnalysis ==
    (ACalled /\ acall.table_name = "sales" /\ Len(adb.sales) > 0 /\ Absent = {}) =>
        /\ "error" \notin DOMAIN aout
        /\ ("grouped_analysis" \in DOMAIN aout)
              <=> (acall.group_by \in Range(AColumns) /\ GroupCandidates # {})
        /\ "grouped_analysis" \in DOMAIN aout =>
              LET groups == aout.grouped_analysis.groups
              IN  /\ aout.grouped_analysis.group_by = acall.group_by
                  /\ DOMAIN groups = ExpectedGroups
                  /\ Cardinality(DOMAIN groups) <= 20
                  /\ \A k \in DOMAIN groups :
                        /\ DOMAIN groups[k] = ExpectedTargets
                        /\ \A c \in DOMAIN groups[k] :
                              LET rows == GroupRows(k, c)
                                  total == SumOver([i \in rows |-> adb.sales[i][c][1]], rows)
                              IN  /\ groups[k][c].count = Cardinality(rows)
                                  /\ groups[k][c].sum = Rat(total * 100, 100)
                                  /\ rows # {} =>
                                        groups[k][c].mean
                                          = RoundTo(Rat(total, Cardinality(rows)), 100)

\* C16 witness: a table with 22 dates grouped by date: 20 groups are listed
\* and 3 of the 6 numeric columns are aggregated
C16_Witness ==
    /\ Profiled /\ "grouped_analysis" \in DOMAIN aout
    /\ acall.group_by = "transaction_date"
    /\ Cardinality(GroupKeys) > 20
    /\ Cardinality(DOMAIN aout.grouped_analysis.groups) = 20
    /\ Cardinality(GroupCandidates) > 3
    /\ \A k \in DOMAIN aout.grouped_analysis.groups :
          DOMAIN aout.grouped_analysis.groups[k] = {"revenue", "profit", "quantity"}

\* the calendar months of the table's dates, and the metric's sum over the
\* rows of one month
Months == {MonthOf(adb.sales[i].transaction_date.ord) : i \in DOMAIN adb.sales}

MonthSum(m, c) ==
    LET rows == {i \in DOMAIN adb.sales :
                    /\ MonthOf(adb.sales[i].transaction_date.ord) = m
                    /\ ~IsNull(adb.sales[i][c])}
    IN  SumOver([i \in rows |-> adb.sales[i][c][1]], rows)

FirstSum == MonthSum(CHOOSE m \in Months : \A k \in Months : m <= k, aout.trend.metric)

LastSum == MonthSum(CHOOSE m \in Months : \A k \in Months : m >= k, aout.trend.metric)

\* C17: a reported trend is 'increasing' iff the last month's sum is strictly
\* greater than the first month's and 'decreasing' otherwise (equal sums
\* too); its percent change is (last - first) / first * 100 rounded to 1
\* decimal, and 0 when the first month's sum is 0, whatever the direction
C17_TrendDirectionAndChange ==
    (Profiled /\ "trend" \in DOMAIN aout) =>
        LET pct == aout.trend.overall_change_pct
        IN  /\ (aout.trend.direction = "increasing") <=> (LastSum > FirstSum)
            /\ (aout.trend.direction = "decreasing") <=> (LastSum <= FirstSum)
            /\ ~pct.nan
            /\ FirstSum = 0 => pct.n = 0
            /\ FirstSum > 0 =>
                  pct.n * 10
                    = pct.d * RoundHalfEven((LastSum - FirstSum) * 1000, FirstSum)

\* C17 witness: the first month sums to 0 and the last to more, so the trend
\* is increasing with a change of 0
C17_Witness ==
    /\ Profiled /\ "trend" \in DOMAIN aout
    /\ FirstSum = 0 /\ LastSum > 0
    /\ aout.trend.direction = "increasing"
    /\ aout.trend.overall_change_pct.n = 0

\* a date of the table does not parse
DatesUnparseable == \E i \in DOMAIN adb.sales : ~adb.sales[i].transaction_date.parses

CategoricalAnalyzed == {c \in Range(Analyzed) : ColumnDtype[c] \in {"object", "category"}}

\* the keys of a profile that holds every section but the trend
KeysWithoutTrend ==
    {"table", "total_rows", "total_columns", "columns_analyzed", "data_quality"}
    \cup (IF NumericAnalyzed # {} THEN {"numeric_summary"} ELSE {})
    \cup (IF Cardinality(NumericAnalyzed) > 1 THEN {"top_correlations"} ELSE {})
    \cup (IF CategoricalAnalyzed # {} THEN {"categorical_summary"} ELSE {})
    \cup (IF acall.group_by \in Range(AColumns) /\ GroupCandidates # {}
          THEN {"grouped_analysis"} ELSE {})

\* C18: when a date does not parse or the dates fall in fewer than 2 months,
\* the call returns a profile without 'trend' and without 'error' that holds
\* every other section, as for a call that attempts no trend
C18_TrendBestEffort ==
    (/\ ACalled /\ acall.table_name = "sales" /\ Len(adb.sales) > 0 /\ Absent = {}
     /\ DatesUnparseable \/ Cardinality(Months) < 2) =>
        /\ DOMAIN aout = KeysWithoutTrend
        /\ aout.total_rows = Len(adb.sales)
        /\ Range(aout.columns_analyzed) = NumericAnalyzed \cup CategoricalAnalyzed
        /\ "numeric_summary" \in DOMAIN aout =>
              /\ DOMAIN aout.numeric_summary = NumericAnalyzed
              /\ \A c \in NumericAnalyzed :
                    aout.numeric_summary[c] = describe(adb.sales, c)
        /\ "categorical_summary" \in DOMAIN aout =>
              /\ DOMAIN aout.categorical_summary = CategoricalAnalyzed
              /\ \A c \in CategoricalAnalyzed :
                    aout.categorical_summary[c] = categorical_summary(adb.sales, c)
        /\ aout.data_quality = data_quality(adb.sales, AColumns)

\* C18 witness: a table of 3 rows over 2 months whose first date does not
\* parse was profiled: numeric summary and data quality, but no trend
C18_Witness ==
    /\ Profiled /\ DatesUnparseable /\ Len(adb.sales) = 3
    /\ NumericAnalyzed # {}
    /\ \E i, j \in DOMAIN adb.sales :
          /\ adb.sales[i].transaction_date.parses
          /\ adb.sales[j].transaction_date.parses
          /\ MonthOf(adb.sales[i].transaction_date.ord)
                # MonthOf(adb.sales[j].transaction_date.ord)
    /\ "trend" \notin DOMAIN aout
    /\ {"numeric_summary", "data_quality"} \subseteq DOMAIN aout

\* the Pearson coefficient of two columns before any rounding, as the
\* square num^2 / den with the sign of num; den = 0 when it is undefined
Pearson(a, b) ==
    LET rows == adb.sales
        both == {i \in DOMAIN rows : ~IsNull(rows[i][a]) /\ ~IsNull(rows[i][b])}
        x == [i \in both |-> rows[i][a][1]]
        y == [i \in both |-> rows[i][b][1]]
        xy == [i \in both |-> x[i] * y[i]]
        n == Cardinality(both)
        num == n * SeriesSum(xy) - SeriesSum(x) * SeriesSum(y)
    IN  [num |-> num,
         den |-> (n * SeriesSumSq(x) - Sq(SeriesSum(x)))
                 * (n * SeriesSumSq(y) - Sq(SeriesSum(y)))]

\* |r| > 0.3 for the unrounded coefficient: r^2 > 9/100
UnroundedPasses(a, b) ==
    /\ Pearson(a, b).den > 0
    /\ ~LeqFrac(Sq(Pearson(a, b).num), Pearson(a, b).den, 9, 100)

ListedPairs ==
    IF "top_correlations" \in DOMAIN aout
    THEN {<<aout.top_correlations[k].col_a, aout.top_correlations[k].col_b>> :
             k \in DOMAIN aout.top_correlations}
    ELSE {}

OrderedNumericPairs ==
    {q \in NumericAnalyzed \X NumericAnalyzed : PlaceOf(q[1]) < PlaceOf(q[2])}

\* C24 (as claimed): a pair of analyzed numeric columns is in the correlation
\* list exactly when its unrounded coefficient has |r| > 0.3 (short of the 10
\* entries the list can hold), so that a pair with 0.3 < |r| < 0.3005 is
\* listed, with the value 0.3 or -0.3
C24_FilterOnUnrounded ==
    Profiled =>
        /\ \A q \in ListedPairs : UnroundedPasses(q[1], q[2])
        /\ \A q \in OrderedNumericPairs :
               (UnroundedPasses(q[1], q[2]) /\ Cardinality(ListedPairs) < TopCorrLimit)
                   => q \in ListedPairs

\* C25 (as claimed): every analyzed column is classified, a boolean column as
\* categorical: an analyzed text or boolean column is in columns_analyzed and
\* has a categorical summary with its unique count, top values and null count
C25_BooleansCategorical ==
    Profiled =>
        /\ Range(Analyzed) \subseteq Range(aout.columns_analyzed)
        /\ \A c \in Range(Analyzed) :
               ColumnDtype[c] \in {"object", "bool"} =>
                   /\ c \in Range(aout.columns_analyzed)
                   /\ "categorical_summary" \in DOMAIN aout
                   /\ c \in DOMAIN aout.categorical_summary
                   /\ DOMAIN aout.categorical_summary[c]
                         = {"unique_values", "top_values", "null_count"}

\* the number of non-null cells of a column of the profiled table
NonNullCount(c) == Cardinality({i \in DOMAIN adb.sales : ~IsNull(adb.sales[i][c])})

\* the non-null cells of the column all hold one value
ConstantColumn(c) ==
    \A i, j \in DOMAIN adb.sales :
        (~IsNull(adb.sales[i][c]) /\ ~IsNull(adb.sales[j][c]))
            => adb.sales[i][c] = adb.sales[j][c]

\* C26 (as claimed): in the numeric summary a column with fewer than 2
\* non-null values has standard deviation 0, never a not-a-number value, and
\* a constant column has standard deviation 0
C26_ShortColumnStdZero ==
    (Profiled /\ "numeric_summary" \in DOMAIN aout) =>
        \A c \in DOMAIN aout.numeric_summary :
            (NonNullCount(c) < 2 \/ ConstantColumn(c)) =>
                /\ ~aout.numeric_summary[c].std.nan
                /\ aout.numeric_summary[c].std.n = 0

-----------------------------------------------------------------------------
(* Claims about both tools *)

\* C19 (as claimed): however the calls of the two tools interleave, a call
\* returns what it returns alone on the store, whatever else is in flight,
\* and no call changes the data store or the query-history log
C19_Stateless ==
    [][/\ db' = db
       /\ adb' = adb
       /\ history' = history
       /\ ("none" \in DOMAIN call /\ "none" \notin DOMAIN call') =>
             \E t \in Ties :
                 outcome' = detect_anomalies(db, call',
                                [tie |-> t, ai |-> NoClient, script |-> NoScript])
       /\ ("none" \in DOMAIN acall /\ "none" \notin DOMAIN acall') =>
             aout' = analyze_data(adb, acall')]_vars

\* C20 (as claimed): every error result of analyze_data and of
\* detect_anomalies names the table of the call and, when a column is the
\* problem, the column name(s)
C20_ErrorsNameInputs ==
    /\ (ACalled /\ "error" \in DOMAIN aout) =>
          /\ acall.table_name \in Range(aout.error)
          /\ aout.error[1] = "Columns not found: " => Absent \subseteq Range(aout.error)
    /\ (Called /\ outcome.raised = "" /\ "error" \in DOMAIN outcome.result) =>
          /\ call.table_name \in Range(outcome.result.error)
          /\ outcome.stage = "column" =>
                call.metric_column \in Range(outcome.result.error)

-----------------------------------------------------------------------------
(* Claims about the query tool and the query history *)

QCalled == "none" \notin DOMAIN qcall

\* the query is one SELECT statement that has no LIMIT clause
SelectWithoutLimit(query) ==
    /\ Len(sql_statements(query)) = 1
    /\ parse_statement(sql_statements(query)[1]).kind = "select"
    /\ parse_statement(sql_statements(query)[1]).limit = NoLimit

RowsReturned == IF "rows" \in DOMAIN qout THEN Len(qout.rows) ELSE 0

\* C22 (as claimed): a query of type 'sql' that is a SELECT without a LIMIT
\* clause of its own returns at most `limit` rows, and exactly `limit` rows
\* when the table holds at least that many
C22_LimitApplied ==
    (QCalled /\ qcall.query_type = "sql" /\ SelectWithoutLimit(qcall.query)) =>
        /\ RowsReturned <= qcall.limit
        /\ (parse_statement(sql_statements(qcall.query)[1]).table = Word.sales
              /\ Len(db.sales) >= qcall.limit) =>
                 /\ "error" \notin DOMAIN qout
                 /\ qout.row_count = qcall.limit
                 /\ RowsReturned = qcall.limit

HCalled(op) == "none" \notin DOMAIN hcall /\ hcall.op = op

Min(a, b) == IF a <= b THEN a ELSE b

\* C23: get_history(limit) with limit >= 0 returns the min(limit, n) most
\* recently recorded of the n retained entries, newest first: its first
\* element is the entry recorded last; record leaves its entry as the newest
\* one, and after clear the log, and so what get_history returns, is empty
C23_NewestFirst ==
    /\ HCalled("record") =>
          /\ Len(history) >= 1
          /\ history[Len(history)].query = hcall.args.query
          /\ history[Len(history)].success = hcall.args.success
          /\ history[Len(history)].result_count = hcall.args.result_count
    /\ HCalled("clear") => history = <<>>
    /\ (HCalled("get_history") /\ hcall.limit >= 0) =>
          /\ Len(hcall.ret) = Min(hcall.limit, Len(history))
          /\ \A k \in 1..Len(hcall.ret) : hcall.ret[k] = history[Len(history) + 1 - k]
          /\ history = <<>> => hcall.ret = <<>>

\* C23 witness: get_history(2) on a log of three entries returned the two
\* newest, the failed query recorded last in front of the successful one
C23_Witness ==
    /\ HCalled("get_history") /\ hcall.limit = 2
    /\ Len(history) = 3
    /\ Len(hcall.ret) = 2
    /\ hcall.ret[1] = history[3] /\ ~hcall.ret[1].success
    /\ hcall.ret[2] = history[2] /\ hcall.ret[2].success

\* C28 (as claimed): the ids of the retained entries are pairwise distinct
\* and strictly increasing in recording order, also once the log has been
\* full and has dropped its oldest entries
C28_IdsIncreasing ==
    \A i, j \in DOMAIN history : i < j => history[i].id < history[j].id

====
